---------------------------- MODULE Spec2Model ----------------------------
(***************************************************************************)
(* Font control sequences (control.py): the FontControlParser, the        *)
(* FontControlSequence with its spacing expander, and the FontContext     *)
(* colour state that the control records update.                          *)
(*                                                                         *)
(* Conventions.  A Python Optional is a sequence of length 0 or 1: None is *)
(* << >> and a present value v is << v >>.  A byte buffer is a sequence of *)
(* integers 0..255; Python offset i is TLA+ position i + 1.  A 32-bit      *)
(* packed colour is the tuple of its four bytes, least significant first,  *)
(* so that no arithmetic leaves the range of the checker's integers.       *)
(***************************************************************************)
EXTENDS Integers, Sequences, FiniteSets, TLC

VARIABLES
    string,       \* FontControlParser.string: the buffer being parsed
    index,        \* FontControlParser.index: the cursor
    max_length,   \* FontControlParser.max_length: the enforced maximum
    sequence,     \* FontControlParser.sequence: the records parsed so far
    failure,      \* the exception the last parse call raised ("none" if it returned)
    stop,         \* how the last parse call left its loop
    start_index,  \* parse's local start_index in the last iteration of its loop
    arg_max_length, \* the max_length argument of the last parse call
    comment_loop, \* parse's local comment while its comment loop runs, else None
    parses,       \* the parse calls made so far, where a run bounds them
    yielded,      \* the records the last apply_spacing call yielded, in order
    arg_spacing,  \* its spacing argument
    arg_split_char, \* its split_char argument: None, -1 or a byte
    py3           \* whether it ran under Python 3 (else Python 2)

spacingVars == <<yielded, arg_spacing, arg_split_char, py3>>

VARIABLES
    context,      \* the FontContext the host applies records to
    applied,      \* the position in the sequence of the record last applied (0: none)
    select_colour_args \* the arguments of the last select_colour call, or None

VARIABLES
    size_args,    \* the arguments of the last context.size call, or None
    size_result,  \* what that call returned or raised, or None
    size_before   \* when that call repeated the one before it on the same
                  \* context: the result and the bounds that one left, else None

VARIABLES
    paint_args,   \* the arguments of the last context.paint call, or None
    paint_ops,    \* the font_paint and draw_underline calls it made, in order
    paint_failure \* the exception it raised ("none" if it returned)

VARIABLES
    copied,       \* the copy taken of the context, or None: the copy, the
                  \* context as it was then, the fields whose objects the two
                  \* share and the one the host has operated on since
    operations    \* the number of operations of the host on the two contexts

sizeVars == <<size_args, size_result, size_before>>

paintVars == <<paint_args, paint_ops, paint_failure>>

copyVars == <<copied, operations>>

contextVars == <<context, applied, select_colour_args, sizeVars, paintVars, copyVars>>

parserVars ==
    <<string, index, max_length, sequence, failure, stop, start_index, arg_max_length,
      comment_loop>>

vars == <<parserVars, parses, spacingVars, contextVars>>

-----------------------------------------------------------------------------
(* Optional values                                                         *)

None == << >>

Some(v) == << v >>

IsNone(o) == o = << >>

Get(o) == o[1]

-----------------------------------------------------------------------------
(* Bounds of the model                                                     *)

\* most pieces of a buffer whose sequence is sized
MaxSizePieces == 2

\* most pieces of a buffer whose sequence is painted
MaxPaintPieces == 3

\* longest buffer drawn byte by byte
MaxLen == 3

\* most pieces (printable runs, control records) of a buffer built from pieces
MaxPieces == 2

\* most parse calls of a run that parses again without clearing, and the
\* longest buffer of such a call
MaxParses == 2

MaxAgainLen == 2

-----------------------------------------------------------------------------
(* Program constants                                                       *)

\* parse: the cap on max_length, 1 << 20
MaxLengthCap == 1048576

Terminators == {0, 10, 13}

\* the opcodes parse dispatches on
Opcodes == {9, 11, 17, 18, 19, 21, 25, 26, 27, 28}

IsPrintable(b) == b >= 32

IsUnknownControl(b) == b < 32 /\ b \notin Terminators /\ b \notin Opcodes

-----------------------------------------------------------------------------
(* Control records (the FontControl* classes)                              *)

FontControlString(indexes, str) ==
    [kind |-> "String", index_start |-> indexes[1], index_end |-> indexes[2],
     string |-> str]

FontControlMove(indexes, dx, dy) ==
    [kind |-> "Move", index_start |-> indexes[1], index_end |-> indexes[2],
     dx |-> dx, dy |-> dy]

FontControlMatrix(indexes, matrix) ==
    [kind |-> "Matrix", index_start |-> indexes[1], index_end |-> indexes[2],
     matrix |-> matrix]

\* __init__ stores fg and bg and sets self.offset = None whatever offset is given
FontControlGCOL(indexes, fg, bg, offset) ==
    [kind |-> "GCOL", index_start |-> indexes[1], index_end |-> indexes[2],
     fg |-> fg, bg |-> bg, offset |-> None]

\* __init__ stores fg and bg and sets self.offset = None whatever offset is given
FontControlRGB(indexes, fg, bg, offset) ==
    [kind |-> "RGB", index_start |-> indexes[1], index_end |-> indexes[2],
     fg |-> fg, bg |-> bg, offset |-> None]

FontControlComment(indexes, comment) ==
    [kind |-> "Comment", index_start |-> indexes[1], index_end |-> indexes[2],
     comment |-> comment]

FontControlUnderline(indexes, pos, thickness) ==
    [kind |-> "Underline", index_start |-> indexes[1], index_end |-> indexes[2],
     underline_pos |-> pos, underline_thickness |-> thickness]

FontControlFont(indexes, font_handle) ==
    [kind |-> "Font", index_start |-> indexes[1], index_end |-> indexes[2],
     font_handle |-> font_handle]

FontControlMoveCharacter(indexes, dx, dy) ==
    [kind |-> "MoveCharacter", index_start |-> indexes[1], index_end |-> indexes[2],
     dx |-> dx, dy |-> dy]

FontControlMoveSpace(indexes, dx, dy) ==
    [kind |-> "MoveSpace", index_start |-> indexes[1], index_end |-> indexes[2],
     dx |-> dx, dy |-> dy]

-----------------------------------------------------------------------------
(* The parser.  A parser value p is the record of the parser's fields; the *)
(* reading methods return the value read together with the parser after    *)
(* the read.                                                               *)

\* FontControlParser.__init__
NewParser ==
    [string |-> << >>, index |-> 0, max_length |-> 0, sequence |-> << >>,
     failure |-> "none", stop |-> "new", start_index |-> 0,
     arg_max_length |-> None, comment_loop |-> None]

\* FontControlParser.reset: keeps the sequence
reset(p) ==
    [p EXCEPT !.string = << >>, !.index = 0, !.max_length = 0,
              !.failure = "none", !.stop = "new", !.start_index = 0,
              !.arg_max_length = None]

\* FontControlParser.clear: a new sequence, then reset
clear(p) == reset([p EXCEPT !.sequence = << >>])

\* FontControlParser.simple_string: the payloads of the String records of
\* the sequence, in order
RECURSIVE simple_string(_)
simple_string(p) ==
    IF p.sequence = << >> THEN << >>
    ELSE LET fc == Head(p.sequence)
             rest == simple_string([p EXCEPT !.sequence = Tail(@)])
         IN  IF fc.kind = "String" THEN fc.string \o rest ELSE rest

\* FontControlParser.nskipped_controls
nskipped_controls(p) == p.index - Len(simple_string(p))

\* FontControlParser.step_back
step_back(p) == IF p.index # 0 THEN [p EXCEPT !.index = @ - 1] ELSE p

\* FontControlParser.read_byte: 0, still advancing, at or past the end
read_byte(p) ==
    IF p.index >= Len(p.string) \/ p.index >= p.max_length
    THEN [b |-> 0, p |-> [p EXCEPT !.index = @ + 1]]
    ELSE [b |-> p.string[p.index + 1], p |-> [p EXCEPT !.index = @ + 1]]

\* the Python slice string[lo:hi], clipped to the buffer
Slice(s, lo, hi) ==
    LET l == IF lo > Len(s) THEN Len(s) ELSE lo
        h == IF hi > Len(s) THEN Len(s) ELSE hi
    IN  IF h <= l THEN << >> ELSE SubSeq(s, l + 1, h)

\* struct.unpack('<l', data): 4 bytes, little endian, two's complement
unpack_signed(data) ==
    data[1] + 256 * data[2] + 65536 * data[3]
    + 16777216 * (IF data[4] > 127 THEN data[4] - 256 ELSE data[4])

\* FontControlParser.read_word(signed=True), as read_signedword calls it:
\* None and no advance when index + 3 is past the buffer or max_length;
\* struct.error when the 4-byte slice comes out short
read_signedword(p) ==
    IF p.index + 3 > Len(p.string) \/ p.index + 3 > p.max_length
    THEN [value |-> None, p |-> p]
    ELSE LET data == Slice(p.string, p.index, p.index + 4)
         IN  IF Len(data) # 4
             THEN [value |-> None, p |-> [p EXCEPT !.failure = "struct.error"]]
             ELSE [value |-> Some(unpack_signed(data)),
                   p |-> [p EXCEPT !.index = @ + 4]]

\* FontControlParser.align
align(p) == [p EXCEPT !.index = ((@ + 3) \div 4) * 4]

\* the reads of read_matrix, in order: a read that raises ends them
RECURSIVE read_words(_, _)
read_words(p, n) ==
    IF n = 0 THEN [values |-> << >>, p |-> p]
    ELSE LET r == read_signedword(p)
         IN  IF r.p.failure # "none" THEN [values |-> << >>, p |-> r.p]
             ELSE LET rest == read_words(r.p, n - 1)
                  IN  [values |-> <<r.value>> \o rest.values, p |-> rest.p]

\* word / 65536.0: the 16.16 fixed-point value, as a fraction
Fixed(word) == [num |-> word, den |-> 65536]

\* FontControlParser.read_matrix: 4 words (6 with a translation); dividing a
\* None word by 65536.0 raises TypeError; the translation words are used raw
read_matrix(p, with_translation) ==
    LET r == read_words(p, IF with_translation THEN 6 ELSE 4)
        v == r.values
    IN  IF r.p.failure # "none" THEN [matrix |-> None, p |-> r.p]
        ELSE IF \E i \in 1..4 : IsNone(v[i])
        THEN [matrix |-> None, p |-> [r.p EXCEPT !.failure = "TypeError"]]
        ELSE [matrix |-> Some([a |-> Fixed(Get(v[1])), b |-> Fixed(Get(v[2])),
                               c |-> Fixed(Get(v[3])), d |-> Fixed(Get(v[4])),
                               e |-> IF with_translation THEN v[5] ELSE Some(0),
                               f |-> IF with_translation THEN v[6] ELSE Some(0)]),
              p |-> r.p]

\* FontControlSequence.append
append(p, fc) == [p EXCEPT !.sequence = Append(@, fc)]

\* parse, b in (0, 10, 13), without the break: the loop goes on from the
\* terminator it stepped back to
parse_terminator_continues(p) == step_back(p)

\* parse, b in (0, 10, 13): step back to point at the terminator and stop
parse_terminator(p) == [step_back(p) EXCEPT !.stop = "terminator"]

\* parse, b in (9, 11), as it would be if the three bytes were a signed
\* number
parse_move_signed(p, b) ==
    LET r1 == read_byte(p)
        r2 == read_byte(r1.p)
        r3 == read_byte(r2.p)
        pos == r1.b + 256 * r2.b + 65536 * (IF r3.b > 127 THEN r3.b - 256 ELSE r3.b)
        q == r3.p
    IN  append(q, IF b = 9
                  THEN FontControlMove(<<p.start_index, q.index>>, pos, 0)
                  ELSE FontControlMove(<<p.start_index, q.index>>, 0, pos))

\* parse, b in (9, 11): three bytes, little endian, into dx (9) or dy (11)
parse_move(p, b) ==
    LET r1 == read_byte(p)
        r2 == read_byte(r1.p)
        r3 == read_byte(r2.p)
        pos == r1.b + 256 * r2.b + 65536 * r3.b
        q == r3.p
    IN  append(q, IF b = 9
                  THEN FontControlMove(<<p.start_index, q.index>>, pos, 0)
                  ELSE FontControlMove(<<p.start_index, q.index>>, 0, pos))

\* parse, b == 17: one byte; bit 7 set selects the background
parse_gcol(p) ==
    LET r == read_byte(p)
        is_bg == r.b >= 128
        gcol == r.b % 128
        q == r.p
    IN  append(q, IF is_bg
                  THEN FontControlGCOL(<<p.start_index, q.index>>, None, Some(gcol), None)
                  ELSE FontControlGCOL(<<p.start_index, q.index>>, Some(gcol), None, None))

\* parse, b == 18: bytes bg, fg, offset
parse_gcol_pair(p) ==
    LET r1 == read_byte(p)
        r2 == read_byte(r1.p)
        r3 == read_byte(r2.p)
        q == r3.p
    IN  append(q, FontControlGCOL(<<p.start_index, q.index>>,
                                  Some(r2.b), Some(r1.b), Some(r3.b)))

\* parse, b == 19: three bytes for bg, three for fg, each shifted into bits
\* 8, 16 and 24 and OR'd with 0x10; then the offset byte
parse_rgb(p) ==
    LET r1 == read_byte(p)
        r2 == read_byte(r1.p)
        r3 == read_byte(r2.p)
        r4 == read_byte(r3.p)
        r5 == read_byte(r4.p)
        r6 == read_byte(r5.p)
        r7 == read_byte(r6.p)
        bg == <<16, r1.b, r2.b, r3.b>>
        fg == <<16, r4.b, r5.b, r6.b>>
        q == r7.p
    IN  append(q, FontControlRGB(<<p.start_index, q.index>>,
                                 Some(fg), Some(bg), Some(r7.b)))

\* parse, b == 21, the inner loop: bytes up to one below 32, which is consumed
RECURSIVE read_comment(_, _)
read_comment(p, comment) ==
    LET r == read_byte(p)
    IN  IF r.b < 32 THEN [comment |-> comment, p |-> r.p]
        ELSE read_comment(r.p, Append(comment, r.b))

\* parse, b == 21, as it would be if the byte that ends the comment were
\* left to be read again
parse_comment_leaves_end(p) ==
    LET r == read_comment(p, << >>)
        q == step_back(r.p)
    IN  append(q, FontControlComment(<<p.start_index, q.index>>, r.comment))

\* parse, b == 21
parse_comment(p) ==
    LET r == read_comment(p, << >>)
        q == r.p
    IN  append(q, FontControlComment(<<p.start_index, q.index>>, r.comment))

\* parse, b == 25: pos (signed 8 bit) and thickness
parse_underline(p) ==
    LET r1 == read_byte(p)
        r2 == read_byte(r1.p)
        pos == IF r1.b > 127 THEN r1.b - 256 ELSE r1.b
        q == r2.p
    IN  append(q, FontControlUnderline(<<p.start_index, q.index>>, pos, r2.b))

\* parse, b == 26: the font handle
parse_font(p) ==
    LET r == read_byte(p)
        q == r.p
    IN  append(q, FontControlFont(<<p.start_index, q.index>>, r.b))

\* parse, b == 27 or 28: align, read the matrix; an exception leaves parse
parse_matrix(p, b) ==
    LET r == read_matrix(align(p), b # 27)
        q == r.p
    IN  IF q.failure # "none" THEN [q EXCEPT !.stop = "raised"]
        ELSE append(q, FontControlMatrix(<<p.start_index, q.index>>, Get(r.matrix)))

\* parse, any other b < 32: leave the loop
parse_unknown(p) == [p EXCEPT !.stop = "unknown"]

\* the printable branch as it would be without the update of index_end
parse_printable_stale_end(p, b) ==
    LET n == Len(p.sequence)
    IN  IF n # 0 /\ p.sequence[n].kind = "String"
        THEN [p EXCEPT !.sequence[n].string = Append(@, b)]
        ELSE append(p, FontControlString(<<p.start_index, p.index>>, <<b>>))

\* the printable branch as it would be if it looked only at a String record
\* of the same parse call (one that ends where this byte starts)
parse_printable_same_call(p, b) ==
    LET n == Len(p.sequence)
    IN  IF n # 0 /\ p.sequence[n].kind = "String"
             /\ p.sequence[n].index_end = p.start_index
        THEN [p EXCEPT !.sequence[n].string = Append(@, b),
                       !.sequence[n].index_end = p.index]
        ELSE append(p, FontControlString(<<p.start_index, p.index>>, <<b>>))

\* parse, b >= 32: extend the String record the sequence ends with, or
\* append a new one
parse_printable(p, b) ==
    LET n == Len(p.sequence)
    IN  IF n # 0 /\ p.sequence[n].kind = "String"
        THEN [p EXCEPT !.sequence[n].string = Append(@, b),
                       !.sequence[n].index_end = p.index]
        ELSE append(p, FontControlString(<<p.start_index, p.index>>, <<b>>))

\* one iteration of parse's loop
parse_step(p) ==
    LET r == read_byte([p EXCEPT !.start_index = p.index])
        b == r.b
        q == r.p
    IN  CASE b \in {0, 10, 13} -> parse_terminator(q)
          [] b \in {9, 11}     -> parse_move(q, b)
          [] b = 17            -> parse_gcol(q)
          [] b = 18            -> parse_gcol_pair(q)
          [] b = 19            -> parse_rgb(q)
          [] b = 21            -> parse_comment(q)
          [] b = 25            -> parse_underline(q)
          [] b = 26            -> parse_font(q)
          [] b \in {27, 28}    -> parse_matrix(q, b)
          [] OTHER             -> IF b < 32 THEN parse_unknown(q)
                                  ELSE parse_printable(q, b)

\* parse's loop, until a break or an exception
RECURSIVE parse_loop(_)
parse_loop(p) ==
    LET q == parse_step(p)
    IN  IF q.stop # "running" THEN q ELSE parse_loop(q)

\* the clamp as it would be without the test for a negative max_length
effective_max_length_negative(m) ==
    IF IsNone(m) \/ Get(m) >= MaxLengthCap THEN MaxLengthCap ELSE Get(m)

\* the max_length parse enforces: None, negative or >= 1 << 20 give 1 << 20
effective_max_length(m) ==
    IF IsNone(m) \/ Get(m) >= MaxLengthCap \/ Get(m) < 0 THEN MaxLengthCap ELSE Get(m)

\* parse before its loop: the clamp of max_length and the fields set for
\* reading
parse_begin(p, str, m) ==
    [p EXCEPT !.string = str, !.max_length = effective_max_length(m),
              !.index = 0, !.failure = "none", !.stop = "running",
              !.start_index = 0, !.arg_max_length = m]

\* FontControlParser.parse(string, max_length)
parse(p, str, m) == parse_loop(parse_begin(p, str, m))

-----------------------------------------------------------------------------
(* FontSpacing and the spacing expander of FontControlSequence             *)

\* FontSpacing.__init__(word, char): each None or a pair (x, y)
FontSpacing(word, char) ==
    [word_xoffset |-> IF IsNone(word) THEN 0 ELSE Get(word)[1],
     word_yoffset |-> IF IsNone(word) THEN 0 ELSE Get(word)[2],
     char_xoffset |-> IF IsNone(char) THEN 0 ELSE Get(char)[1],
     char_yoffset |-> IF IsNone(char) THEN 0 ELSE Get(char)[2]]

\* FontSpacing.__bool__
spacing_bool(sp) ==
    sp.word_xoffset # 0 \/ sp.word_yoffset # 0 \/
    sp.char_xoffset # 0 \/ sp.char_yoffset # 0

\* Truthy as it would be for a FontSpacing without __bool__: any object is
\* true
Truthy_any_object(spacing) == ~IsNone(spacing)

\* the truth value of a spacing argument: None is false
Truthy(spacing) == ~IsNone(spacing) /\ spacing_bool(Get(spacing))

\* bytes.split(sep) for a one-byte separator: the pieces between the
\* occurrences of sep, empty ones included
RECURSIVE split(_, _)
split(s, sep) ==
    IF \A i \in 1..Len(s) : s[i] # sep THEN << s >>
    ELSE LET i == CHOOSE j \in 1..Len(s) :
                      s[j] = sep /\ \A k \in 1..(j - 1) : s[k] # sep
         IN  << SubSeq(s, 1, i - 1) >> \o split(SubSeq(s, i + 1, Len(s)), sep)

\* each_byte as it would be with the String left whole
each_byte_whole(s) == << s >>

\* [b for b in s]: one piece per byte
each_byte(s) == [i \in 1..Len(s) |-> << s[i] >>]

\* _apply_splits, the loop over the parts of one String record: the records
\* yielded for parts[part ..], offset bytes into the record
RECURSIVE split_parts(_, _, _, _, _)
split_parts(ctrl, parts, part, offset, split_char) ==
    IF part > Len(parts) THEN << >>
    ELSE LET s == parts[part]
             last == part = Len(parts)
             size == Len(s)
             indexes == <<ctrl.index_start + offset, ctrl.index_start + offset + size>>
             piece == IF s # << >> THEN << FontControlString(indexes, s) >> ELSE << >>
             offset1 == offset + size
         IN  IF ~last /\ split_char # -1
             THEN piece
                  \o << FontControlString(<<ctrl.index_start + offset1,
                                            ctrl.index_start + offset1 + 1>>,
                                          << split_char >>) >>
                  \o split_parts(ctrl, parts, part + 1, offset1 + 1, split_char)
             ELSE piece \o split_parts(ctrl, parts, part + 1, offset1, split_char)

\* apply_splits_ctrl as it would be if the occurrences of split_char were
\* not yielded
apply_splits_ctrl_without_separators(ctrl, split_char) ==
    IF ctrl.kind = "String" /\ ~IsNone(split_char)
    THEN LET parts == IF Get(split_char) = -1 THEN each_byte(ctrl.string)
                      ELSE split(ctrl.string, Get(split_char))
         IN  IF Len(parts) = 1 THEN << ctrl >>
             ELSE split_parts(ctrl, parts, 1, 0, -1)
    ELSE << ctrl >>

\* _apply_splits for one record: a String is broken at split_char (at every
\* byte for -1) unless that leaves it in one part
apply_splits_ctrl(ctrl, split_char) ==
    IF ctrl.kind = "String" /\ ~IsNone(split_char)
    THEN LET parts == IF Get(split_char) = -1 THEN each_byte(ctrl.string)
                      ELSE split(ctrl.string, Get(split_char))
         IN  IF Len(parts) = 1 THEN << ctrl >>
             ELSE split_parts(ctrl, parts, 1, 0, Get(split_char))
    ELSE << ctrl >>

\* FontControlSequence._apply_splits
RECURSIVE apply_splits(_, _)
apply_splits(seq, split_char) ==
    IF seq = << >> THEN << >>
    ELSE apply_splits_ctrl(Head(seq), split_char) \o apply_splits(Tail(seq), split_char)

\* apply_spacing's test s[-1] == b' ': a one-character string equal to ' '
\* under Python 2, an integer compared with a bytes object under Python 3
last_is_space(s, python3) == IF python3 THEN FALSE ELSE s[Len(s)] = 32

\* the span of a move as it would be if it were given the piece's span
move_indexes_of_piece(indexes) == indexes

\* the zero-width span apply_spacing gives a move after a piece
move_indexes(indexes) == <<indexes[2], indexes[2]>>

\* apply_spacing, the loop over the parts of one String record
RECURSIVE spacing_parts(_, _, _, _, _, _, _)
spacing_parts(ctrl, parts, part, offset, word_split, sp, python3) ==
    IF part > Len(parts) THEN << >>
    ELSE LET last == part = Len(parts)
             s == IF word_split /\ ~last THEN Append(parts[part], 32) ELSE parts[part]
             size == Len(s)
             indexes == <<ctrl.index_start + offset, ctrl.index_start + offset + size>>
             moves ==
                 IF ~word_split
                 THEN << FontControlMoveCharacter(move_indexes(indexes),
                                                  sp.char_xoffset, sp.char_yoffset) >>
                      \o (IF s = <<32>> /\ (sp.word_xoffset # 0 \/ sp.word_yoffset # 0)
                          THEN << FontControlMoveSpace(move_indexes(indexes),
                                                       sp.word_xoffset, sp.word_yoffset) >>
                          ELSE << >>)
                 ELSE IF last_is_space(s, python3)
                      THEN << FontControlMoveSpace(move_indexes(indexes),
                                                   sp.word_xoffset, sp.word_yoffset) >>
                      ELSE << >>
         IN  IF s = << >>
             THEN spacing_parts(ctrl, parts, part + 1, offset, word_split, sp, python3)
             ELSE << FontControlString(indexes, s) >> \o moves
                  \o spacing_parts(ctrl, parts, part + 1, offset + size,
                                   word_split, sp, python3)

\* apply_spacing for one record out of _apply_splits
apply_spacing_ctrl(ctrl, spacing, python3) ==
    IF ctrl.kind = "String" /\ Truthy(spacing)
    THEN LET sp == Get(spacing)
             word_split == ~(sp.char_xoffset # 0 \/ sp.char_yoffset # 0)
             parts == IF word_split THEN split(ctrl.string, 32)
                      ELSE each_byte(ctrl.string)
         IN  spacing_parts(ctrl, parts, 1, 0, word_split, sp, python3)
    ELSE << ctrl >>

RECURSIVE apply_spacing_all(_, _, _)
apply_spacing_all(seq, spacing, python3) ==
    IF seq = << >> THEN << >>
    ELSE apply_spacing_ctrl(Head(seq), spacing, python3)
         \o apply_spacing_all(Tail(seq), spacing, python3)

\* FontControlSequence.apply_spacing(context, spacing, split_char): all the
\* records the generator yields
apply_spacing(seq, spacing, split_char, python3) ==
    apply_spacing_all(apply_splits(seq, split_char), spacing, python3)

-----------------------------------------------------------------------------
(* The rendering context (FontContext) and the colour records              *)

\* Matrix(ro): the identity transform
IdentityMatrix ==
    [a |-> Fixed(65536), b |-> Fixed(0), c |-> Fixed(0), d |-> Fixed(65536),
     e |-> Some(0), f |-> Some(0)]

\* FontContext.__init__; bounds None is the empty Bounds
NewContext ==
    [maxcol |-> 7,
     bg |-> 0, fgbase |-> 0, fgoffset |-> 0,
     fg |-> 0, fgpal |-> <<16, 0, 0, 0>>, bgpal |-> <<16, 0, 0, 0>>,
     font_handle |-> 0, font |-> None,
     underline_pos |-> 0, underline_thickness |-> 0,
     transform |-> IdentityMatrix,
     x |-> 0, y |-> 0,
     limitx |-> None, limity |-> None,
     bounds |-> None]

\* the fields of which a copy shares the object with the context it was
\* taken from, as they would be if the Bounds were assigned like the rest
copy_shares_bounds == {"font", "transform", "bounds"}

\* the fields of which a copy shares the object with the context it was
\* taken from: the font and the transform are assigned, the Bounds is
\* copied
copy_shares == {"font", "transform"}

\* FontContext.copy(to): every field of to, a new context (copybase) when
\* to is None, is assigned from c
copy(c, to) ==
    [(IF IsNone(to) THEN NewContext ELSE Get(to)) EXCEPT
        !.maxcol = c.maxcol,
        !.bg = c.bg, !.fgbase = c.fgbase, !.fgoffset = c.fgoffset,
        !.fg = c.fg, !.fgpal = c.fgpal, !.bgpal = c.bgpal,
        !.font_handle = c.font_handle, !.font = c.font,
        !.underline_pos = c.underline_pos,
        !.underline_thickness = c.underline_thickness,
        !.transform = c.transform,
        !.x = c.x, !.y = c.y,
        !.limitx = c.limitx, !.limity = c.limity,
        !.bounds = c.bounds]

\* FontContext.saturate
saturate(value, vmin, vmax) ==
    LET low == IF value <= vmax THEN value ELSE vmax
    IN  IF low >= vmin THEN low ELSE vmin

\* bit k (value 2^k) of a non-negative integer
Bit(v, k) == (v \div (2 ^ k)) % 2

\* FontContext.gcol_to_rgb: 1 bit each of R, G and B, low byte 0x10
gcol_to_rgb(gcol) ==
    <<16,
      IF Bit(gcol, 0) = 1 THEN 255 ELSE 0,
      IF Bit(gcol, 1) = 1 THEN 255 ELSE 0,
      IF Bit(gcol, 2) = 1 THEN 255 ELSE 0>>

\* rgb_to_gcol with the bytes taken in the opposite order: blue as bit 0
\* and red as bit 2
rgb_to_gcol_swapped(rgb) ==
    Bit(rgb[4], 7) + 2 * Bit(rgb[3], 7) + 4 * Bit(rgb[2], 7)

\* FontContext.rgb_to_gcol: bits 15, 23 and 31 of the packed value
rgb_to_gcol(rgb) ==
    Bit(rgb[2], 7) + 2 * Bit(rgb[3], 7) + 4 * Bit(rgb[4], 7)

\* FontContext._gcol_updated
gcol_updated(c) ==
    LET bg == saturate(c.bg, 0, c.maxcol)
        fg == saturate(c.fg, 0, c.maxcol)
        fgbase == saturate(fg - c.fgoffset, 0, c.maxcol)
    IN  [c EXCEPT !.bg = bg, !.fg = fg, !.fgbase = fgbase,
                  !.fgoffset = fg - fgbase,
                  !.fgpal = gcol_to_rgb(fg), !.bgpal = gcol_to_rgb(bg)]

\* FontContext._rgb_updated
rgb_updated(c) ==
    LET fg == rgb_to_gcol(c.fgpal)
    IN  gcol_updated([c EXCEPT !.bg = rgb_to_gcol(c.bgpal), !.fg = fg,
                               !.fgbase = fg - c.fgoffset])

\* select_colour as it would be if it processed the RGB parameters before
\* the palette ones
select_colour_rgb_first(c, bg, fg, fgoffset, bgpal, fgpal) ==
    LET gcol_changed == ~IsNone(fg) \/ ~IsNone(bg)
        rgb_changed == ~IsNone(fgpal) \/ ~IsNone(bgpal)
        c0 == [c EXCEPT !.fgpal = IF IsNone(fgpal) THEN @ ELSE Get(fgpal),
                        !.bgpal = IF IsNone(bgpal) THEN @ ELSE Get(bgpal)]
        c1 == IF rgb_changed THEN rgb_updated(c0) ELSE c0
        c2 == [c1 EXCEPT !.fgbase = IF IsNone(fg) THEN @ ELSE Get(fg),
                         !.bg = IF IsNone(bg) THEN @ ELSE Get(bg),
                         !.fgoffset = IF IsNone(fgoffset) THEN @ ELSE Get(fgoffset)]
        c3 == IF gcol_changed \/ ~IsNone(fgoffset)
              THEN [c2 EXCEPT !.fg = c2.fgbase + c2.fgoffset] ELSE c2
    IN  IF gcol_changed THEN gcol_updated(c3) ELSE c3

\* FontContext.select_colour(bg, fg, fgoffset, bgpal, fgpal), each None or set
select_colour(c, bg, fg, fgoffset, bgpal, fgpal) ==
    LET gcol_changed == ~IsNone(fg) \/ ~IsNone(bg)
        rgb_changed == ~IsNone(fgpal) \/ ~IsNone(bgpal)
        c1 == [c EXCEPT !.fgbase = IF IsNone(fg) THEN @ ELSE Get(fg),
                        !.bg = IF IsNone(bg) THEN @ ELSE Get(bg),
                        !.fgoffset = IF IsNone(fgoffset) THEN @ ELSE Get(fgoffset)]
        c2 == IF gcol_changed \/ ~IsNone(fgoffset)
              THEN [c1 EXCEPT !.fg = c1.fgbase + c1.fgoffset] ELSE c1
        c3 == IF gcol_changed THEN gcol_updated(c2) ELSE c2
        c4 == [c3 EXCEPT !.fgpal = IF IsNone(fgpal) THEN @ ELSE Get(fgpal),
                         !.bgpal = IF IsNone(bgpal) THEN @ ELSE Get(bgpal)]
    IN  IF rgb_changed THEN rgb_updated(c4) ELSE c4

\* Bounds += (x0, y0, x1, y1): the union, the empty Bounds being its identity
bounds_add(bounds, box) ==
    IF IsNone(bounds) THEN Some(box)
    ELSE LET b == Get(bounds)
         IN  Some(<<IF box[1] < b[1] THEN box[1] ELSE b[1],
                    IF box[2] < b[2] THEN box[2] ELSE b[2],
                    IF box[3] > b[3] THEN box[3] ELSE b[3],
                    IF box[4] > b[4] THEN box[4] ELSE b[4]>>)

\* FontControlBase.size
base_size == <<0, 0, 0, 0, 0, 0>>

\* FontControlBase.apply, given the record's size tuple
base_apply(c, size) ==
    [c EXCEPT !.bounds = bounds_add(@, <<c.x + size[1], c.y + size[2],
                                         c.x + size[3], c.y + size[4]>>),
              !.x = @ + size[5],
              !.y = @ + size[6]]

\* the arguments FontControlGCOL.apply and FontControlRGB.apply give select_colour
colour_args(ctrl) ==
    IF ctrl.kind = "GCOL"
    THEN [bg |-> ctrl.bg, fg |-> ctrl.fg, fgoffset |-> ctrl.offset,
          bgpal |-> None, fgpal |-> None]
    ELSE [bg |-> None, fg |-> None, fgoffset |-> ctrl.offset,
          bgpal |-> ctrl.bg, fgpal |-> ctrl.fg]

\* FontControlGCOL.apply and FontControlRGB.apply
colour_apply(c, ctrl) ==
    LET a == colour_args(ctrl)
    IN  base_apply(select_colour(c, a.bg, a.fg, a.fgoffset, a.bgpal, a.fgpal),
                   base_size)

-----------------------------------------------------------------------------
(* Sizing: the fonts of the host, the records' apply methods and           *)
(* FontContext.size.  The font of a context is the handle of its font      *)
(* object; underline metrics are held in units of 1/256.  An operation     *)
(* that can raise returns the context it leaves with the exception's name. *)

\* size: the limit used when limits is None, 0x7FFFFFFF
NoLimit == 2147483647

\* FakeRISCOS.fonts: the character width and height of each font handle
Fonts ==
    [h \in {1, 2, 3} |->
        IF h = 1 THEN [xsize |-> 8, ysize |-> 16]
        ELSE IF h = 2 THEN [xsize |-> 32, ysize |-> 32]
        ELSE [xsize |-> 8, ysize |-> 8]]

\* FontContext.select_font with FontFake as font_class: an unknown handle
\* raises KeyError before anything is assigned
select_font(c, font_handle) ==
    IF font_handle \in DOMAIN Fonts
    THEN [c |-> [c EXCEPT !.font = Some(font_handle), !.font_handle = font_handle],
          failure |-> "none"]
    ELSE [c |-> c, failure |-> "KeyError"]

\* FontContextFake.font_bounds(string) and FontFake.bounds: a fixed advance
\* per byte and no y advance; None for the string gives the character cell
font_bounds(c, str) ==
    LET font == Fonts[Get(c.font)]
        n == IF IsNone(str) THEN 1 ELSE Len(Get(str))
    IN  <<0, 0, n * font.xsize, font.ysize, n * font.xsize, 0>>

\* Matrix.apply(x, y) for the 16.16 entries of a transform, integral part
transform_apply(t, x, y) ==
    <<(t.a.num * x + t.c.num * y) \div 65536 + Get(t.e),
      (t.b.num * x + t.d.num * y) \div 65536 + Get(t.f)>>

\* the least and the greatest of four integers
Least4(a, b, c, d) == CHOOSE m \in {a, b, c, d} : \A v \in {a, b, c, d} : m <= v

Greatest4(a, b, c, d) == CHOOSE m \in {a, b, c, d} : \A v \in {a, b, c, d} : m >= v

\* Matrix.bbox: the envelope of the four transformed corners
transform_bbox(t, x0, y0, x1, y1) ==
    LET p1 == transform_apply(t, x0, y0)
        p2 == transform_apply(t, x1, y0)
        p3 == transform_apply(t, x0, y1)
        p4 == transform_apply(t, x1, y1)
    IN  <<Least4(p1[1], p2[1], p3[1], p4[1]), Least4(p1[2], p2[2], p3[2], p4[2]),
          Greatest4(p1[1], p2[1], p3[1], p4[1]), Greatest4(p1[2], p2[2], p3[2], p4[2])>>

\* FontControlString.size: the font's bounds of the string, through the
\* transform unless it is the identity (which is false as a condition)
string_size(c, ctrl) ==
    LET raw == font_bounds(c, Some(ctrl.string))
    IN  IF c.transform = IdentityMatrix THEN raw
        ELSE LET box == transform_bbox(c.transform, raw[1], raw[2], raw[3], raw[4])
                 off == transform_apply(c.transform, raw[5], raw[6])
             IN  <<box[1], box[2], box[3], box[4], off[1], off[2]>>

\* FontControlMove.size (also MoveCharacter and MoveSpace)
move_size(ctrl) == <<0, 0, 0, 0, ctrl.dx, ctrl.dy>>

\* FontControlUnderline.apply: the metrics scaled by the font height / 256
underline_apply(c, ctrl) ==
    LET y1 == font_bounds(c, None)[4]
    IN  base_apply([c EXCEPT !.underline_pos = ctrl.underline_pos * y1,
                             !.underline_thickness = ctrl.underline_thickness * y1],
                   base_size)

\* FontControlMatrix.apply as it would be if a matrix were set only over
\* the identity
matrix_apply_over_identity(c, ctrl) ==
    base_apply([c EXCEPT !.transform = IF @ = IdentityMatrix THEN ctrl.matrix ELSE @],
               base_size)

\* FontControlMatrix.apply: the record's matrix takes the place of the
\* transform
matrix_apply(c, ctrl) ==
    base_apply([c EXCEPT !.transform = ctrl.matrix], base_size)

\* ctrl.apply(context) for a record of any class.  A String or Underline
\* record asks the font of the context for bounds: with no font selected
\* that raises AttributeError
apply(c, ctrl) ==
    CASE ctrl.kind \in {"String", "Underline"} /\ IsNone(c.font)
             -> [c |-> c, failure |-> "AttributeError"]
      [] ctrl.kind = "String" /\ ~IsNone(c.font)
             -> [c |-> base_apply(c, string_size(c, ctrl)), failure |-> "none"]
      [] ctrl.kind = "Underline" /\ ~IsNone(c.font)
             -> [c |-> underline_apply(c, ctrl), failure |-> "none"]
      [] ctrl.kind \in {"Move", "MoveCharacter", "MoveSpace"}
             -> [c |-> base_apply(c, move_size(ctrl)), failure |-> "none"]
      [] ctrl.kind = "Matrix"
             -> [c |-> matrix_apply(c, ctrl), failure |-> "none"]
      [] ctrl.kind \in {"GCOL", "RGB"}
             -> [c |-> colour_apply(c, ctrl), failure |-> "none"]
      [] ctrl.kind = "Font"
             -> LET r == select_font(c, ctrl.font_handle)
                IN  IF r.failure # "none" THEN r
                    ELSE [c |-> base_apply(r.c, base_size), failure |-> "none"]
      [] ctrl.kind = "Comment"
             -> [c |-> base_apply(c, base_size), failure |-> "none"]

\* beyond_limits with >= for >: a cursor on the limit counts as beyond it
beyond_limits_inclusive(c) ==
    LET limitx == Get(c.limitx)
        limity == Get(c.limity)
    IN  \/ limitx >= 0 /\ c.x >= limitx
        \/ limitx < 0 /\ c.x >= limitx
        \/ limity >= 0 /\ c.y > limity
        \/ limity < 0 /\ c.y < limity

\* beyond_limits with line 370 comparing as line 369 does
beyond_limits_symmetric(c) ==
    LET limitx == Get(c.limitx)
        limity == Get(c.limity)
    IN  \/ limitx >= 0 /\ c.x > limitx
        \/ limitx < 0 /\ c.x > limitx
        \/ limity >= 0 /\ c.y > limity
        \/ limity < 0 /\ c.y > limity

\* beyond_limits without lines 369-370: only limitx is looked at
beyond_limits_x_only(c) ==
    LET limitx == Get(c.limitx)
    IN  \/ limitx >= 0 /\ c.x > limitx
        \/ limitx < 0 /\ c.x > limitx

\* size.beyond_limits
beyond_limits(c) ==
    LET limitx == Get(c.limitx)
        limity == Get(c.limity)
    IN  \/ limitx >= 0 /\ c.x > limitx
        \/ limitx < 0 /\ c.x > limitx
        \/ limity >= 0 /\ c.y > limity
        \/ limity < 0 /\ c.y < limity

\* size_start without lines 352-353: the cursor is left where it was
size_start_keeps_cursor(c, limits, continued) ==
    IF continued THEN c
    ELSE [c EXCEPT !.bounds = None,
                   !.underline_pos = 0, !.underline_thickness = 0,
                   !.limitx = Some(IF IsNone(limits) THEN NoLimit ELSE Get(limits)[1]),
                   !.limity = Some(IF IsNone(limits) THEN NoLimit ELSE Get(limits)[2])]

\* size, before its loop: unless continued, the cursor, the bounds and the
\* underline are cleared and the limits set
size_start(c, limits, continued) ==
    IF continued THEN c
    ELSE [c EXCEPT !.x = 0, !.y = 0, !.bounds = None,
                   !.underline_pos = 0, !.underline_thickness = 0,
                   !.limitx = Some(IF IsNone(limits) THEN NoLimit ELSE Get(limits)[1]),
                   !.limity = Some(IF IsNone(limits) THEN NoLimit ELSE Get(limits)[2])]

\* splits_of without the comparison of line 388: every String is a split
splits_of_any_string(ctrl, split_char) ==
    IF ctrl.kind # "String" THEN 0
    ELSE IF IsNone(split_char) THEN Len(ctrl.string)
    ELSE 1

\* splits_of with line 386 counting the String, not its bytes
splits_of_per_string(ctrl, split_char) ==
    IF ctrl.kind # "String" THEN 0
    ELSE IF IsNone(split_char) THEN 1
    ELSE IF ctrl.string = <<Get(split_char)>> \/ Get(split_char) = -1 THEN 1
    ELSE 0

\* size: the splits a record counts for
splits_of(ctrl, split_char) ==
    IF ctrl.kind # "String" THEN 0
    ELSE IF IsNone(split_char) THEN Len(ctrl.string)
    ELSE IF ctrl.string = <<Get(split_char)>> \/ Get(split_char) = -1 THEN 1
    ELSE 0

\* one evaluation of beyond_limits, kept with what size returns
Judgement(c) ==
    [x |-> c.x, y |-> c.y, limitx |-> Get(c.limitx), limity |-> Get(c.limity),
     beyond |-> beyond_limits(c)]

\* what size hands back: the tuple it returns (None when it raises), the
\* context it leaves, the exception, and the evaluations of beyond_limits
SizeReturn(result, c, raised, judged) ==
    [result |-> result, c |-> c, failure |-> raised, judged |-> judged]

RECURSIVE size_loop(_, _, _, _, _)
RECURSIVE size(_, _, _, _, _, _, _)

\* size_loop as it would be if line 399 restored last_context, the context
\* before the record that went beyond the limits
size_loop_restores_last(st, ys, i, split_char, python3) ==
    IF i > Len(ys)
    THEN SizeReturn(Some(<<st.last_index, st.last_splits_seen>>), st.self, "none", st.judged)
    ELSE LET ctrl == ys[i]
             last_context == st.self
             r == apply(st.self, ctrl)
             splits_seen == splits_of(ctrl, split_char)
             str == IF ctrl.kind = "String" THEN ctrl.string ELSE << >>
             judged == Append(st.judged, Judgement(r.c))
         IN  IF r.failure # "none"
             THEN SizeReturn(None, r.c, r.failure, st.judged)
             ELSE IF beyond_limits(r.c)
             THEN IF ~IsNone(split_char) /\ Get(split_char) # -1
                  THEN SizeReturn(Some(<<st.last_split_index, st.last_splits_seen>>),
                                  last_context, "none", judged)
                  ELSE IF Len(str) > 1
                  THEN LET inner == size(last_context, <<ctrl>>, None, None,
                                         Some(-1), TRUE, python3)
                       IN  IF inner.failure # "none"
                           THEN SizeReturn(None, inner.c, inner.failure,
                                           judged \o inner.judged)
                           ELSE SizeReturn(Some(<<Get(inner.result)[1],
                                                  st.last_splits_seen + Get(inner.result)[2]>>),
                                           inner.c, "none", judged \o inner.judged)
                  ELSE SizeReturn(Some(<<st.last_index, st.last_splits_seen>>),
                                  last_context, "none", judged)
             ELSE LET passed == splits_seen # 0 /\ ~IsNone(split_char)
                  IN  size_loop([self |-> r.c,
                                 last_split_point |-> IF passed THEN r.c
                                                      ELSE st.last_split_point,
                                 last_split_index |-> IF passed THEN ctrl.index_end
                                                      ELSE st.last_split_index,
                                 last_index |-> ctrl.index_end,
                                 last_splits_seen |-> st.last_splits_seen + splits_seen,
                                 judged |-> judged],
                                ys, i + 1, split_char, python3)

\* size, its loop from record i of the records apply_spacing yields.  st
\* holds the context (self) and the loop's locals
size_loop(st, ys, i, split_char, python3) ==
    IF i > Len(ys)
    THEN SizeReturn(Some(<<st.last_index, st.last_splits_seen>>), st.self, "none", st.judged)
    ELSE LET ctrl == ys[i]
             last_context == st.self
             r == apply(st.self, ctrl)
             splits_seen == splits_of(ctrl, split_char)
             str == IF ctrl.kind = "String" THEN ctrl.string ELSE << >>
             judged == Append(st.judged, Judgement(r.c))
         IN  IF r.failure # "none"
             THEN SizeReturn(None, r.c, r.failure, st.judged)
             ELSE IF beyond_limits(r.c)
             THEN IF ~IsNone(split_char) /\ Get(split_char) # -1
                  THEN SizeReturn(Some(<<st.last_split_index, st.last_splits_seen>>),
                                  st.last_split_point, "none", judged)
                  ELSE IF Len(str) > 1
                  THEN LET inner == size(last_context, <<ctrl>>, None, None,
                                         Some(-1), TRUE, python3)
                       IN  IF inner.failure # "none"
                           THEN SizeReturn(None, inner.c, inner.failure,
                                           judged \o inner.judged)
                           ELSE SizeReturn(Some(<<Get(inner.result)[1],
                                                  st.last_splits_seen + Get(inner.result)[2]>>),
                                           inner.c, "none", judged \o inner.judged)
                  ELSE SizeReturn(Some(<<st.last_index, st.last_splits_seen>>),
                                  last_context, "none", judged)
             ELSE LET passed == splits_seen # 0 /\ ~IsNone(split_char)
                  IN  size_loop([self |-> r.c,
                                 last_split_point |-> IF passed THEN r.c
                                                      ELSE st.last_split_point,
                                 last_split_index |-> IF passed THEN ctrl.index_end
                                                      ELSE st.last_split_index,
                                 last_index |-> ctrl.index_end,
                                 last_splits_seen |-> st.last_splits_seen + splits_seen,
                                 judged |-> judged],
                                ys, i + 1, split_char, python3)

\* FontContext.size(sequence, spacing, limits, split_char, continued)
size(c, seq, spacing, limits, split_char, continued, python3) ==
    LET c0 == size_start(c, limits, continued)
    IN  size_loop([self |-> c0, last_split_point |-> c0, last_split_index |-> 0,
                   last_index |-> 0, last_splits_seen |-> 0, judged |-> << >>],
                  apply_spacing(seq, spacing, split_char, python3),
                  1, split_char, python3)

-----------------------------------------------------------------------------
(* Painting: the paint methods of the records and FontContext.paint.  The  *)
(* calls a FontContextFake records in paint_ops are kept in order: a text  *)
(* entry for font_paint, an underline entry for draw_underline.            *)

\* v / 256.0 for an underline metric held in units of 1/256; the fonts and
\* the underline records that are painted give multiples of 256
Over256(v) == v \div 256

\* FontContextFake.font_paint: the entry added to paint_ops
FontPaintOp(c, str) ==
    [kind |-> "text", string |-> str, font |-> Get(c.font), x |-> c.x, y |-> c.y,
     bg |-> c.bg, fg |-> c.fg]

\* FontContextFake.draw_underline: the entry added to paint_ops
DrawUnderlineOp(c, rect) == [kind |-> "underline", rect |-> rect, fg |-> c.fg]

\* mixin_size as it would be if a move had no size of its own
mixin_size_of_base(c, ctrl) ==
    IF ctrl.kind = "String" THEN string_size(c, ctrl) ELSE base_size

\* the size method of a record that has the underline mixin
mixin_size(c, ctrl) ==
    IF ctrl.kind = "String" THEN string_size(c, ctrl) ELSE move_size(ctrl)

\* FontControlUnderlineMixin.underline as it would be with the rectangle
\* passed to draw_underline but not added to the bounds
underline_not_in_bounds(st, ctrl) ==
    LET c == st.c
        sz == mixin_size(c, ctrl)
        rect == <<c.x, c.y + Over256(c.underline_pos - c.underline_thickness),
                  c.x + sz[5], c.y + Over256(c.underline_pos)>>
    IN  IF c.underline_thickness # 0
        THEN [c |-> c, ops |-> Append(st.ops, DrawUnderlineOp(c, rect))]
        ELSE st

\* FontControlUnderlineMixin.underline: with a thickness set, the bar under
\* the record is drawn from the cursor and added to the bounds.  st is the
\* context with the calls made so far
underline(st, ctrl) ==
    LET c == st.c
        sz == mixin_size(c, ctrl)
        rect == <<c.x, c.y + Over256(c.underline_pos - c.underline_thickness),
                  c.x + sz[5], c.y + Over256(c.underline_pos)>>
    IN  IF c.underline_thickness # 0
        THEN [c |-> [c EXCEPT !.bounds = bounds_add(@, rect)],
              ops |-> Append(st.ops, DrawUnderlineOp(c, rect))]
        ELSE st
\* FontControlString.paint after self.underline(context): font_paint at
\* the cursor, then the base paint, which applies the record
paint_string(u, ctrl) ==
    [c |-> apply(u.c, ctrl).c,
     ops |-> Append(u.ops, FontPaintOp(u.c, ctrl.string)),
     failure |-> "none"]

\* FontControlMoveCharacter.paint and FontControlMoveSpace.paint after
\* self.underline(context): the base paint, which applies the record
paint_move(u, ctrl) ==
    [c |-> apply(u.c, ctrl).c, ops |-> u.ops, failure |-> "none"]

\* ctrl.paint(context) for a record of any class: String underlines, paints
\* and applies; MoveCharacter and MoveSpace underline and apply; every other
\* record applies
paint_ctrl(st, ctrl) ==
    CASE ctrl.kind = "String" /\ IsNone(st.c.font)
             -> [c |-> st.c, ops |-> st.ops, failure |-> "AttributeError"]
      [] ctrl.kind = "String" /\ ~IsNone(st.c.font)
             -> paint_string(underline(st, ctrl), ctrl)
      [] ctrl.kind \in {"MoveCharacter", "MoveSpace"}
             -> paint_move(underline(st, ctrl), ctrl)
      [] OTHER
             -> LET r == apply(st.c, ctrl)
                IN  [c |-> r.c, ops |-> st.ops, failure |-> r.failure]

\* FontContext.paint, its loop from record i of the records apply_spacing
\* yields
RECURSIVE paint_loop(_, _, _)
paint_loop(st, ys, i) ==
    IF i > Len(ys) THEN [c |-> st.c, ops |-> st.ops, failure |-> "none"]
    ELSE LET r == paint_ctrl(st, ys[i])
         IN  IF r.failure # "none" THEN r
             ELSE paint_loop([c |-> r.c, ops |-> r.ops], ys, i + 1)

\* FontContext.paint(sequence, spacing): the bounds and the underline are
\* cleared, the cursor is left where it is
paint(c, seq, spacing, python3) ==
    paint_loop([c |-> [c EXCEPT !.bounds = None, !.underline_pos = 0,
                                !.underline_thickness = 0],
                ops |-> << >>],
               apply_spacing(seq, spacing, None, python3), 1)

-----------------------------------------------------------------------------
(* Inputs                                                                  *)

\* the bytes short buffers are drawn from: the terminators, an unknown
\* control, opcodes with byte fields, a comment, a matrix, printable bytes
Bytes == {0, 10, 13, 5, 9, 21, 26, 27, 32, 65}

\* all buffers of at most n bytes over a set of bytes
BuffersUpTo(B, n) == UNION {[1..k -> B] : k \in 0..n}

Buffers == BuffersUpTo(Bytes, MaxLen)

\* the buffers of repeated parse calls: printable bytes, a terminator, an
\* unknown control and a font record
AgainBuffers == BuffersUpTo({10, 5, 26, 65}, MaxAgainLen)

\* the texts the spacing expander is run over
TextBuffers == BuffersUpTo({10, 26, 32, 65}, MaxLen)

\* the spacing arguments: none, all zero, word only, character only, both
Spacings ==
    { None,
      Some(FontSpacing(None, None)),
      Some(FontSpacing(Some(<<5, 0>>), None)),
      Some(FontSpacing(Some(<<0, 3>>), Some(<<0, 0>>))),
      Some(FontSpacing(None, Some(<<2, 0>>))),
      Some(FontSpacing(Some(<<5, 0>>), Some(<<0, 2>>))) }

\* the split_char arguments: none, every byte, a space, a letter
SplitChars == { None, Some(-1), Some(32), Some(65) }

\* the pieces the buffers of colour records are built from
ColourPieces ==
    { <<65>>, <<17, 3>>, <<17, 131>>, <<18, 1, 2, 3>>, <<18, 6, 5, 1>>,
      <<19, 0, 0, 0, 255, 0, 0, 4>>, <<19, 255, 255, 0, 0, 128, 255, 2>> }

RECURSIVE ColourBuilt(_)
ColourBuilt(n) ==
    IF n = 0 THEN { << >> }
    ELSE { b \o piece : b \in ColourBuilt(n - 1), piece \in ColourPieces }

ColourBuffers == UNION { ColourBuilt(n) : n \in 0..MaxPieces }

\* the pieces longer buffers are built from: a printable run, a terminator,
\* an unknown control, and one complete record of every opcode.  A matrix
\* piece is its opcode and its words; Expand puts the alignment bytes between
Pieces ==
    { <<65, 32>>, <<10>>, <<5>>,
      <<9, 128, 2, 0>>, <<11, 0, 3, 0>>,
      <<17, 3>>, <<17, 131>>, <<18, 1, 2, 3>>,
      <<19, 0, 0, 0, 255, 0, 0, 4>>,
      <<21, 66, 5>>, <<25, 240, 32>>, <<26, 1>>,
      <<27, 0, 0, 1, 0, 0, 0, 0, 0, 0, 64, 0, 0, 0, 0, 1, 0>>,
      <<28, 0, 0, 2, 0, 0, 0, 0, 0, 0, 0, 0, 0, 0, 0, 1, 0,
            5, 0, 0, 0, 253, 255, 255, 255>> }

\* the bytes that take the cursor from offset pos + 1 to a multiple of 4
Padding(pos) == [i \in 1..((4 - ((pos + 1) % 4)) % 4) |-> 32]

\* a piece as it is written at offset pos of a buffer
Expand(piece, pos) ==
    IF piece[1] \in {27, 28}
    THEN <<piece[1]>> \o Padding(pos) \o Tail(piece)
    ELSE piece

\* the buffers of exactly n pieces
RECURSIVE Built(_)
Built(n) ==
    IF n = 0 THEN { << >> }
    ELSE { b \o Expand(piece, Len(b)) : b \in Built(n - 1), piece \in Pieces }

\* every prefix of a buffer
Prefixes(str) == { SubSeq(str, 1, k) : k \in 0..Len(str) }

BuiltBuffers == UNION { Built(n) : n \in 0..MaxPieces }

\* the max_length arguments tried with a buffer: None, negative, at and
\* above the cap, and every length up to one past the buffer's
MaxLengths(str) ==
    {None, Some(-1), Some(MaxLengthCap), Some(MaxLengthCap + 1)}
    \cup {Some(k) : k \in 0..(Len(str) + 1)}

-----------------------------------------------------------------------------
(* Actions: one per public operation of the parser                         *)

SetParser(p) ==
    /\ string' = p.string
    /\ index' = p.index
    /\ max_length' = p.max_length
    /\ sequence' = p.sequence
    /\ failure' = p.failure
    /\ stop' = p.stop
    /\ start_index' = p.start_index
    /\ arg_max_length' = p.arg_max_length
    /\ comment_loop' = p.comment_loop

Parser ==
    [string |-> string, index |-> index, max_length |-> max_length,
     sequence |-> sequence, failure |-> failure, stop |-> stop,
     start_index |-> start_index, arg_max_length |-> arg_max_length,
     comment_loop |-> comment_loop]

\* a parser as clear leaves it (and as __init__ makes it)
Cleared == Parser = NewParser

Init ==
    /\ string = NewParser.string
    /\ index = NewParser.index
    /\ max_length = NewParser.max_length
    /\ sequence = NewParser.sequence
    /\ failure = NewParser.failure
    /\ stop = NewParser.stop
    /\ start_index = NewParser.start_index
    /\ arg_max_length = NewParser.arg_max_length
    /\ comment_loop = NewParser.comment_loop
    /\ parses = 0
    /\ yielded = << >>
    /\ arg_spacing = None
    /\ arg_split_char = None
    /\ py3 = FALSE
    /\ context = NewContext
    /\ applied = 0
    /\ select_colour_args = None
    /\ size_args = None
    /\ size_result = None
    /\ size_before = None
    /\ paint_args = None
    /\ paint_ops = << >>
    /\ paint_failure = "none"
    /\ copied = None
    /\ operations = 0

\* parser.parse(str, m) on a parser just constructed or cleared: a short or
\* a built buffer with any max_length, or a built buffer cut short at any
\* byte with no max_length
ParseCleared ==
    /\ Cleared
    /\ \/ \E str \in Buffers \cup BuiltBuffers : \E m \in MaxLengths(str) :
              SetParser(parse(Parser, str, m))
       \/ \E b \in BuiltBuffers : \E str \in Prefixes(b) :
              SetParser(parse(Parser, str, None))
    /\ UNCHANGED <<parses, spacingVars, contextVars>>

\* parser.parse(str, m) on the parser as it is, cleared or not
ParseAgain ==
    /\ parses < MaxParses
    /\ \E str \in AgainBuffers : \E m \in {None, Some(1)} :
           SetParser(parse(Parser, str, m))
    /\ parses' = parses + 1
    /\ UNCHANGED <<spacingVars, contextVars>>

\* parser.parse(str, m) of a text with spaces, a terminator and a font
\* record, on a parser just constructed or cleared
ParseText ==
    /\ Cleared
    /\ \E str \in TextBuffers : \E m \in {None, Some(2)} :
           SetParser(parse(Parser, str, m))
    /\ UNCHANGED <<parses, spacingVars, contextVars>>

\* list(parser.sequence.apply_spacing(context, spacing, split_char))
ApplySpacing ==
    /\ \E spacing \in Spacings, split_char \in SplitChars, python3 \in BOOLEAN :
           /\ yielded' = apply_spacing(sequence, spacing, split_char, python3)
           /\ arg_spacing' = spacing
           /\ arg_split_char' = split_char
           /\ py3' = python3
    /\ UNCHANGED <<parserVars, parses, contextVars>>

\* parser.parse(str, m) of colour records and text, on a parser just
\* constructed or cleared
ParseColours ==
    /\ Cleared
    /\ \E str \in ColourBuffers : SetParser(parse(Parser, str, None))
    /\ UNCHANGED <<parses, spacingVars, contextVars>>

\* parser.sequence[i - 1].apply(context) for a GCOL or RGB record
ApplyColour ==
    /\ \E i \in 1..Len(sequence) :
           /\ sequence[i].kind \in {"GCOL", "RGB"}
           /\ context' = colour_apply(context, sequence[i])
           /\ applied' = i
           /\ select_colour_args' = Some(colour_args(sequence[i]))
    /\ UNCHANGED <<sizeVars, paintVars, copyVars>>
    /\ UNCHANGED <<parserVars, parses, spacingVars>>

\* parser.clear()
Clear ==
    /\ SetParser(clear(Parser))
    /\ UNCHANGED <<parses, spacingVars, contextVars>>

\* parser.reset()
Reset ==
    /\ SetParser(reset(Parser))
    /\ UNCHANGED <<parses, spacingVars, contextVars>>

Next == ParseCleared \/ Clear \/ Reset

Spec == Init /\ [][Next]_vars

\* repeated parse calls, with or without clear and reset between them
NextAgain == ParseAgain \/ Clear \/ Reset

SpecAgain == Init /\ [][NextAgain]_vars

\* the buffers parsed an iteration at a time: a terminator, an unknown
\* control, records of one and of three operand bytes, a comment and a
\* printable byte
StepBuffers == BuffersUpTo({10, 5, 9, 21, 26, 65}, MaxLen)

\* parser.parse(str, m) entered on a parser just constructed or cleared: the
\* statements before the loop
ParseBegin ==
    /\ Cleared
    /\ \E str \in StepBuffers : \E m \in MaxLengths(str) :
           SetParser(parse_begin(Parser, str, m))
    /\ UNCHANGED <<parses, spacingVars, contextVars>>

\* one iteration of parse's dispatch loop; for b == 21 up to the start of
\* the comment loop
ParseIterate ==
    /\ stop = "running"
    /\ IsNone(comment_loop)
    /\ \E r \in { read_byte([Parser EXCEPT !.start_index = index]) } :
           \E q \in { IF r.b = 21 THEN [r.p EXCEPT !.comment_loop = Some(<< >>)]
                                   ELSE parse_step(Parser) } :
               SetParser(q)
    /\ UNCHANGED <<parses, spacingVars, contextVars>>

\* one iteration of parse's comment loop; the byte below 32 that ends it
\* is followed by the append of the Comment record
CommentIterate ==
    /\ stop = "running"
    /\ ~IsNone(comment_loop)
    /\ \E r \in { read_byte(Parser) } :
           \E q \in { IF r.b < 32
                       THEN append([r.p EXCEPT !.comment_loop = None],
                                   FontControlComment(<<start_index, r.p.index>>,
                                                      Get(comment_loop)))
                       ELSE [r.p EXCEPT !.comment_loop =
                                            Some(Append(Get(comment_loop), r.b))] } :
               SetParser(q)
    /\ UNCHANGED <<parses, spacingVars, contextVars>>

\* one parse call, an iteration of its loops at a time
NextSteps == ParseBegin \/ ParseIterate \/ CommentIterate

SpecSteps == Init /\ [][NextSteps]_vars

\* the same with the loops kept running: a call that has entered parse
\* goes on executing it
FairSteps == SpecSteps /\ WF_vars(ParseIterate) /\ WF_vars(CommentIterate)

\* one parse, then the spacing expander over its sequence
NextSpacing == ParseText \/ ApplySpacing

SpecSpacing == Init /\ [][NextSpacing]_vars

\* one parse, then its colour records applied to a context in any order
NextColour == ParseColours \/ ApplyColour

SpecColour == Init /\ [][NextColour]_vars

\* the integers a host passes select_colour as bg, fg and fgoffset: below
\* the range, in it and above maxcol
ColourInts == {-1, 3, 9}

\* the packed colours a host passes as fgpal, low byte first: the image of
\* GCOL 5 under gcol_to_rgb and a word that is no such image
PaletteWords == { <<16, 255, 0, 255>>, <<0, 128, 127, 200>> }

\* the packed colour a host passes as bgpal: no image under gcol_to_rgb
BackgroundWords == { <<0, 128, 127, 200>> }

\* an optional value of a set
Optional(S) == {None} \cup {Some(v) : v \in S}

\* context.select_colour(bg, fg, fgoffset, bgpal, fgpal) called by the host,
\* each parameter left out or set
SelectColour ==
    /\ \E bg \in Optional(ColourInts), fg \in Optional(ColourInts),
          fgoffset \in Optional(ColourInts),
          bgpal \in Optional(BackgroundWords), fgpal \in Optional(PaletteWords) :
           /\ context' = select_colour(context, bg, fg, fgoffset, bgpal, fgpal)
           /\ select_colour_args' = Some([bg |-> bg, fg |-> fg, fgoffset |-> fgoffset,
                                          bgpal |-> bgpal, fgpal |-> fgpal])
    /\ applied' = 0
    /\ UNCHANGED <<parserVars, parses, spacingVars, sizeVars, paintVars, copyVars>>

\* record.apply(context) for the GCOL or RGB record another parser made of
\* one colour opcode
ApplyParsedColour ==
    /\ \E piece \in ColourPieces :
           LET ctrl == parse(NewParser, piece, None).sequence[1]
           IN  /\ ctrl.kind \in {"GCOL", "RGB"}
               /\ context' = colour_apply(context, ctrl)
               /\ select_colour_args' = Some(colour_args(ctrl))
    /\ applied' = 0
    /\ UNCHANGED <<parserVars, parses, spacingVars, sizeVars, paintVars, copyVars>>

\* a context driven by select_colour calls and colour records in any order
NextSelect == SelectColour \/ ApplyParsedColour

SpecSelect == Init /\ [][NextSelect]_vars

\* context.select_colour(fg=g) called by the host, for a colour of the
\* palette
SelectForeground ==
    /\ \E g \in 0..NewContext.maxcol :
           /\ context' = select_colour(context, None, Some(g), None, None, None)
           /\ select_colour_args' =
                  Some([bg |-> None, fg |-> Some(g), fgoffset |-> None,
                        bgpal |-> None, fgpal |-> None])
    /\ applied' = 0
    /\ UNCHANGED <<parserVars, parses, spacingVars, sizeVars, paintVars, copyVars>>

\* context.select_colour(fgpal=context.fgpal, bgpal=context.bgpal) called
\* by the host right after a select_colour(fg=g): the palette words the
\* context holds are given back to it
SelectPalette ==
    /\ ~IsNone(select_colour_args)
    /\ ~IsNone(Get(select_colour_args).fg)
    /\ Get(Get(select_colour_args).fg) \in 0..NewContext.maxcol
    /\ \A a \in {"bg", "fgoffset", "bgpal", "fgpal"} : IsNone(Get(select_colour_args)[a])
    /\ context' = select_colour(context, None, None, None,
                                Some(context.bgpal), Some(context.fgpal))
    /\ select_colour_args' =
           Some([bg |-> None, fg |-> None, fgoffset |-> None,
                 bgpal |-> Some(context.bgpal), fgpal |-> Some(context.fgpal)])
    /\ applied' = 0
    /\ UNCHANGED <<parserVars, parses, spacingVars, sizeVars, paintVars, copyVars>>

\* context.select_colour(fgoffset=k) called by the host
SelectOffset ==
    /\ \E k \in ColourInts :
           /\ context' = select_colour(context, None, None, Some(k), None, None)
           /\ select_colour_args' =
                  Some([bg |-> None, fg |-> None, fgoffset |-> Some(k),
                        bgpal |-> None, fgpal |-> None])
    /\ applied' = 0
    /\ UNCHANGED <<parserVars, parses, spacingVars, sizeVars, paintVars, copyVars>>

\* a context driven by colour records and offsets, with select_colour(fg=g)
\* calls and calls that give the context its own palette words back
NextPalette == ApplyParsedColour \/ SelectOffset \/ SelectForeground \/ SelectPalette

SpecPalette == Init /\ [][NextPalette]_vars

\* the pieces the buffers that are sized are built from: three letters, two
\* words, a change to font 2 with two letters after it, a font that does
\* not exist, a move up by 2 and a colour change
SizePieces ==
    { <<65, 65, 65>>, <<65, 32, 65>>, <<26, 2, 65, 65>>, <<26, 9>>, <<11, 2, 0, 0>>,
      <<17, 3>> }

RECURSIVE SizeBuilt(_)
SizeBuilt(n) ==
    IF n = 0 THEN { << >> }
    ELSE { b \o piece : b \in SizeBuilt(n - 1), piece \in SizePieces }

SizeBuffers == UNION { SizeBuilt(n) : n \in 0..MaxSizePieces }

\* the spacing arguments of size: none, words only, words and characters
SizeSpacings ==
    { None,
      Some(FontSpacing(Some(<<5, 0>>), None)),
      Some(FontSpacing(Some(<<5, 0>>), Some(<<2, -3>>))) }

\* the limits arguments of size: none, and pairs of either sign
SizeLimits ==
    { None, Some(<<16, 0>>), Some(<<24, -2>>), Some(<<-1, 4>>), Some(<<24, 2>>) }

\* the split_char arguments of size: none, a space, every character
SizeSplits == { None, Some(32), Some(-1) }

\* parser.parse(str) of text, font, move and colour records, on a parser
\* just constructed or cleared, before the sequence is sized
ParseSized ==
    /\ Cleared
    /\ IsNone(size_args)
    /\ \E str \in SizeBuffers : SetParser(parse(Parser, str, None))
    /\ UNCHANGED <<parses, spacingVars, contextVars>>

\* context.select_font(h) called by the host, before it sizes
SelectFont ==
    /\ IsNone(size_args)
    /\ \E h \in {1, 2} : context' = select_font(context, h).c
    /\ UNCHANGED <<parserVars, parses, spacingVars, applied, select_colour_args, sizeVars,
                   paintVars, copyVars>>

\* what is kept of a size call's return
SizeResult(r) == Some([result |-> r.result, failure |-> r.failure, judged |-> r.judged])

\* context.size(parser.sequence, spacing, limits, split_char) called by the
\* host: the first size call of a run
Size ==
    /\ IsNone(size_args)
    /\ \E spacing \in SizeSpacings, limits \in SizeLimits,
          split_char \in SizeSplits, python3 \in BOOLEAN :
           LET r == size(context, sequence, spacing, limits, split_char, FALSE, python3)
           IN  /\ context' = r.c
               /\ size_args' = Some([spacing |-> spacing, limits |-> limits,
                                     split_char |-> split_char, python3 |-> python3,
                                     font |-> context.font, before |-> context])
               /\ size_result' = SizeResult(r)
    /\ size_before' = None
    /\ UNCHANGED <<parserVars, parses, spacingVars, applied, select_colour_args, paintVars, copyVars>>

\* the same size call made once more, straight after the last one
SizeAgain ==
    /\ ~IsNone(size_args)
    /\ LET a == Get(size_args)
           r == size(context, sequence, a.spacing, a.limits, a.split_char, FALSE,
                     a.python3)
       IN  /\ context' = r.c
           /\ size_args' = Some([a EXCEPT !.font = context.font, !.before = context])
           /\ size_result' = SizeResult(r)
           /\ size_before' = Some([result |-> Get(size_result).result,
                                    failure |-> Get(size_result).failure,
                                    bounds |-> context.bounds,
                                    font |-> a.font])
    /\ UNCHANGED <<parserVars, parses, spacingVars, applied, select_colour_args, paintVars, copyVars>>

\* the host selects a font and parses, sizes the sequence, and repeats that
\* size call any number of times
NextSize == ParseSized \/ SelectFont \/ Size \/ SizeAgain

SpecSize == Init /\ [][NextSize]_vars

\* the pieces the buffers that are painted are built from: three letters,
\* two words, underline on (position -16, thickness 32), underline off with
\* a letter after it, a change to font 2 and a move right by 4
PaintPieces ==
    { <<65, 65, 65>>, <<65, 32, 65>>, <<25, 240, 32>>, <<25, 0, 0, 65>>, <<26, 2>>,
      <<9, 4, 0, 0>>, <<11, 255, 255, 255>> }

RECURSIVE PaintBuilt(_)
PaintBuilt(n) ==
    IF n = 0 THEN { << >> }
    ELSE { b \o piece : b \in PaintBuilt(n - 1), piece \in PaintPieces }

PaintBuffers == UNION { PaintBuilt(n) : n \in 0..MaxPaintPieces }

\* the spacing arguments of paint: none, words, characters with a rise,
\* both
PaintSpacings ==
    { None,
      Some(FontSpacing(Some(<<5, 0>>), None)),
      Some(FontSpacing(None, Some(<<2, 1>>))),
      Some(FontSpacing(Some(<<5, 0>>), Some(<<2, 0>>))) }

\* parser.parse(str) of text, underline, font and move records, on a parser
\* just constructed or cleared, before the sequence is painted
ParsePainted ==
    /\ Cleared
    /\ IsNone(paint_args)
    /\ \E str \in PaintBuffers : SetParser(parse(Parser, str, None))
    /\ UNCHANGED <<parses, spacingVars, contextVars>>

\* context.select_font(h) called by the host, before it paints
SelectPaintFont ==
    /\ IsNone(paint_args)
    /\ \E h \in {1, 2} : context' = select_font(context, h).c
    /\ UNCHANGED <<parserVars, parses, spacingVars, applied, select_colour_args, sizeVars,
                   paintVars, copyVars>>

\* context.paint(parser.sequence, spacing) called by the host: the first
\* paint call of a run
Paint ==
    /\ IsNone(paint_args)
    /\ \E spacing \in PaintSpacings, python3 \in BOOLEAN :
           LET r == paint(context, sequence, spacing, python3)
           IN  /\ context' = r.c
               /\ paint_ops' = r.ops
               /\ paint_failure' = r.failure
               /\ paint_args' = Some([spacing |-> spacing, python3 |-> python3,
                                      before |-> context])
    /\ UNCHANGED <<parserVars, parses, spacingVars, applied, select_colour_args, sizeVars,
                   copyVars>>

\* the host selects a font and parses, then paints the sequence
NextPaint == ParsePainted \/ SelectPaintFont \/ Paint

SpecPaint == Init /\ [][NextPaint]_vars

\* the pieces the buffers of records applied one by one are built from: a
\* matrix without and one with a translation, a move right and a move up,
\* a comment, the colour changes, a font change, an underline and a letter
ApplyPieces ==
    { <<27, 0, 0, 1, 0, 0, 0, 0, 0, 0, 64, 0, 0, 0, 0, 1, 0>>,
      <<28, 0, 0, 2, 0, 0, 0, 0, 0, 0, 0, 0, 0, 0, 0, 1, 0,
            5, 0, 0, 0, 253, 255, 255, 255>>,
      <<9, 128, 2, 0>>, <<11, 0, 3, 0>>, <<21, 66, 5>>, <<17, 3>>,
      <<19, 255, 0, 0, 0, 0, 255, 14>>, <<26, 1>>, <<25, 240, 32>>, <<65>> }

RECURSIVE ApplyBuilt(_)
ApplyBuilt(n) ==
    IF n = 0 THEN { << >> }
    ELSE { b \o Expand(piece, Len(b)) : b \in ApplyBuilt(n - 1), piece \in ApplyPieces }

ApplyBuffers == UNION { ApplyBuilt(n) : n \in 0..MaxPaintPieces }

\* parser.parse(str) of matrix and move records, on a parser just
\* constructed or cleared
ParseApplied ==
    /\ Cleared
    /\ \E str \in ApplyBuffers : SetParser(parse(Parser, str, None))
    /\ UNCHANGED <<parses, spacingVars, contextVars>>

\* parser.sequence[applied].apply(context): the host applies the records
\* in order
ApplyRecord ==
    /\ applied < Len(sequence)
    /\ context' = apply(context, sequence[applied + 1]).c
    /\ applied' = applied + 1
    /\ UNCHANGED <<parserVars, parses, spacingVars, select_colour_args, sizeVars, paintVars, copyVars>>

\* one parse, then its records applied to a context in order
NextApply == ParseApplied \/ ApplyRecord

SpecApply == Init /\ [][NextApply]_vars

\* the most operations of the host on a context and its copy
MaxOperations == 3

\* the pieces the buffers of records applied to a context and its copy are
\* built from
CopyPieces == { <<65, 65>>, <<9, 4, 0, 0>>, <<25, 240, 32>> }

RECURSIVE CopyBuilt(_)
CopyBuilt(n) ==
    IF n = 0 THEN { << >> }
    ELSE { b \o piece : b \in CopyBuilt(n - 1), piece \in CopyPieces }

\* parser.parse(str) of the records the host applies, on a parser just
\* constructed or cleared
ParseCopied ==
    /\ Cleared
    /\ \E str \in UNION { CopyBuilt(n) : n \in 1..MaxSizePieces } :
           SetParser(parse(Parser, str, None))
    /\ UNCHANGED <<parses, spacingVars, contextVars>>

\* one operation of the host on a context c: a record applied, select_font,
\* select_colour or size; what it leaves of c, and whether c.bounds is
\* still the Bounds object it was (a record adds to it in place, size
\* starts with clear_bounds, which makes a new one)
Operations(c) ==
    { [c |-> apply(c, sequence[i]).c, same_bounds |-> TRUE] : i \in 1..Len(sequence) }
    \cup { [c |-> select_font(c, h).c, same_bounds |-> TRUE] : h \in {1, 2} }
    \cup { [c |-> select_colour(c, None, Some(3), None, None, None), same_bounds |-> TRUE] }
    \cup { [c |-> size(c, sequence, None, limits, None, FALSE, TRUE).c,
            same_bounds |-> FALSE] : limits \in {None, Some(<<16, 0>>)} }

\* c = context.copy() or context.copy(to=c), c a context already in use
Copy ==
    /\ IsNone(copied)
    /\ \E to \in {None, Some([NewContext EXCEPT !.x = 7, !.bounds = Some(<<0, 0, 7, 7>>),
                                                !.font = Some(3), !.font_handle = 3])} :
           copied' = Some([c |-> copy(context, to), at_copy |-> context,
                           shares |-> copy_shares, side |-> "none"])
    /\ UNCHANGED <<parserVars, parses, spacingVars, context, applied, select_colour_args,
                   sizeVars, paintVars, operations>>

\* an operation of the host on the context (before a copy is taken, and
\* after) or on the copy; after the first one on either, the host stays
\* with that one.  A Bounds object the two share shows what is added to it
\* in both.
Operate ==
    /\ operations < MaxOperations
    /\ operations' = operations + 1
    /\ \/ /\ IsNone(copied)
          /\ \E r \in Operations(context) : context' = r.c
          /\ UNCHANGED copied
       \/ /\ ~IsNone(copied)
          /\ Get(copied).side \in {"none", "context"}
          /\ \E r \in Operations(context) :
                 LET shared == "bounds" \in Get(copied).shares /\ r.same_bounds
                 IN  /\ context' = r.c
                     /\ copied' = Some([Get(copied) EXCEPT
                            !.side = "context",
                            !.shares = IF r.same_bounds THEN @ ELSE @ \ {"bounds"},
                            !.c = IF shared THEN [@ EXCEPT !.bounds = r.c.bounds] ELSE @])
       \/ /\ ~IsNone(copied)
          /\ Get(copied).side \in {"none", "copy"}
          /\ \E r \in Operations(Get(copied).c) :
                 LET shared == "bounds" \in Get(copied).shares /\ r.same_bounds
                 IN  /\ context' = IF shared THEN [context EXCEPT !.bounds = r.c.bounds]
                                    ELSE context
                     /\ copied' = Some([Get(copied) EXCEPT
                            !.side = "copy",
                            !.shares = IF r.same_bounds THEN @ ELSE @ \ {"bounds"},
                            !.c = r.c])
    /\ UNCHANGED <<parserVars, parses, spacingVars, applied, select_colour_args, sizeVars,
                   paintVars>>

\* a context operated on, copied, and one of the two operated on
NextCopy == ParseCopied \/ Copy \/ Operate

SpecCopy == Init /\ [][NextCopy]_vars

-----------------------------------------------------------------------------
(* Vocabulary of the properties                                            *)

Min(a, b) == IF a <= b THEN a ELSE b

\* a parse call has just ended (reset and clear set stop back to "new")
Parsed == stop # "new"

\* the number of bytes of str before its first byte below 32
RECURSIVE PrintableRun(_)
PrintableRun(str) ==
    IF str = << >> \/ ~IsPrintable(Head(str)) THEN 0
    ELSE 1 + PrintableRun(Tail(str))

\* str is printable bytes, then nothing or a terminator and anything
IsTerminatedString(str) ==
    LET n == PrintableRun(str)
    IN  n = Len(str) \/ str[n + 1] \in Terminators

\* the limit the claims call the effective max_length, from the argument
ClaimedMaxLength(m) ==
    IF IsNone(m) THEN 1048576
    ELSE IF Get(m) < 0 \/ Get(m) >= 1048576 THEN 1048576 ELSE Get(m)

\* the end of what parse may read: min(len(bytes), effective max_length)
Limit == Min(Len(string), ClaimedMaxLength(arg_max_length))

-----------------------------------------------------------------------------
(* C1: parsing n printable bytes, optionally followed by a terminator and  *)
(* anything, on a cleared parser with effective max_length m gives no      *)
(* record and cursor 0 when min(n, m) = 0, and otherwise exactly one       *)
(* String record spanning 0..min(n, m) holding those bytes, with the       *)
(* cursor at min(n, m).                                                    *)
C1_PrintablePrefix ==
    (Parsed /\ IsTerminatedString(string)) =>
        LET k == Min(PrintableRun(string), ClaimedMaxLength(arg_max_length))
        IN  /\ failure = "none"
            /\ index = k
            /\ IF k = 0 THEN sequence = << >>
               ELSE sequence = << [kind |-> "String", index_start |-> 0,
                                   index_end |-> k,
                                   string |-> SubSeq(string, 1, k)] >>

\* a two-byte String cut by max_length out of three printable bytes
C1_Witness ==
    /\ Parsed
    /\ IsTerminatedString(string)
    /\ PrintableRun(string) = 3
    /\ arg_max_length = Some(2)
    /\ Len(sequence) = 1
    /\ index = 2

\* a String ended by a terminator byte that is followed by more bytes
C1_WitnessTerminator ==
    /\ Parsed
    /\ PrintableRun(string) = 1
    /\ Len(string) = 3
    /\ string[2] = 10
    /\ index = 1

(* C2: after one parse on a cleared parser, every String record has        *)
(* index_end - index_start = len(string), and its payload is the buffer    *)
(* bytes at offsets index_start .. index_end - 1.                          *)
C2_StringSpans ==
    Parsed =>
        \A i \in 1..Len(sequence) :
            sequence[i].kind = "String" =>
                /\ sequence[i].index_end - sequence[i].index_start
                       = Len(sequence[i].string)
                /\ sequence[i].index_end <= Len(string)
                /\ sequence[i].string
                       = SubSeq(string, sequence[i].index_start + 1,
                                sequence[i].index_end)

\* a String of two bytes that does not start the buffer
C2_Witness ==
    /\ Parsed
    /\ \E i \in 1..Len(sequence) :
           /\ sequence[i].kind = "String"
           /\ sequence[i].index_start > 0
           /\ Len(sequence[i].string) = 2

(* C5, its closing clause: after parse returns, for any input bytes and    *)
(* any max_length, the cursor never exceeds min(len(bytes), effective      *)
(* max_length).                                                            *)
C5_CursorWithinLimit ==
    (Parsed /\ failure = "none") => index <= Limit

(* C5 in full: after parse returns, the cursor either equals               *)
(* min(len(bytes), effective max_length) or is the offset of a byte 0, 10  *)
(* or 13, and it never exceeds min(len(bytes), effective max_length).      *)
C5_CursorAtTerminatorOrMax ==
    (Parsed /\ failure = "none") =>
        /\ index <= Limit
        /\ \/ index = Limit
           \/ string[index + 1] \in Terminators

(* C6: when a control record's multi-byte field runs past the end of the   *)
(* buffer or past max_length, parse emits no record for that opcode and    *)
(* stops; the records before it are kept.  A record emitted for such an    *)
(* opcode is one whose span ends past min(len(bytes), max_length).         *)
C6_NoTruncatedRecord ==
    Parsed =>
        \A i \in 1..Len(sequence) :
            sequence[i].kind \in {"Move", "GCOL", "RGB", "Underline", "Font", "Matrix"}
                => sequence[i].index_end <= Limit

\* the bytes read or skipped by the unknown-control iteration of parse and
\* the records it leaves, with the cursor expected at offset `at`
StoppedAtUnknown(at) ==
    /\ IsUnknownControl(string[start_index + 1])
    /\ index = at
    /\ \A i \in 1..Len(sequence) : sequence[i].index_end <= start_index
    /\ sequence = parse(NewParser, SubSeq(string, 1, start_index),
                        arg_max_length).sequence

(* C7: at an unknown control byte below 32 parse stops with the *)
(* cursor at that byte's offset, emits nothing for it or after it, and     *)
(* keeps the records before it unchanged.                                  *)
C7_CursorAtUnknown ==
    stop = "unknown" => StoppedAtUnknown(start_index)

\* what parse does there: the unknown control byte is consumed, so the
\* cursor is left one past its offset; nothing is emitted for it or after
\* it and the records before it are kept
C7_CursorPastUnknown ==
    stop = "unknown" => StoppedAtUnknown(start_index + 1)

\* stopped at an unknown control byte with a record before it and a byte after
C7_Witness ==
    /\ stop = "unknown"
    /\ Len(sequence) = 1
    /\ start_index = 1
    /\ Len(string) = 3

\* read_signedword at the cursor of parser p, as the claim has it: invalid
\* and no advance with fewer than 4 bytes left, else 4 bytes consumed
ReadWordAsClaimed(p) ==
    LET r == read_signedword(p)
        left == Min(Len(p.string), p.max_length) - p.index
    IN  IF left < 4
        THEN r.value = None /\ r.p = p
        ELSE /\ r.p = [p EXCEPT !.index = @ + 4]
             /\ r.value = Some(unpack_signed(SubSeq(p.string, p.index + 1, p.index + 4)))

(* C8, its first clause: read_word and read_signedword return the invalid  *)
(* value and leave the cursor unchanged whenever fewer than 4 bytes remain *)
(* before the end of the buffer or max_length, and otherwise consume 4     *)
(* bytes as a little-endian value (here: called where a parse has ended).  *)
C8_ReadWordInvalid ==
    (Parsed /\ failure = "none") => ReadWordAsClaimed(Parser)

(* C8, its conclusion: a matrix opcode (27 / 28) whose words are not all   *)
(* present before the end of the buffer or max_length emits no Matrix      *)
(* record and raises no failure.                                           *)
C8_MatrixNoFailure ==
    Parsed =>
        /\ failure = "none"
        /\ \A i \in 1..Len(sequence) :
               sequence[i].kind = "Matrix" => sequence[i].index_end <= Limit

\* C8 in full
C8_TruncatedWords == C8_ReadWordInvalid /\ C8_MatrixNoFailure

\* where the record of opcode b at offset pos ends, by the claimed sizes
ClaimedEnd(pos, b) ==
    CASE b \in {9, 11} -> pos + 4
      [] b = 17        -> pos + 2
      [] b = 18        -> pos + 4
      [] b = 19        -> pos + 8
      [] b = 25        -> pos + 3
      [] b = 26        -> pos + 2
      [] b = 27        -> (pos \div 4) * 4 + 4 + 16
      [] b = 28        -> (pos \div 4) * 4 + 4 + 24

ClaimedKind(b) ==
    CASE b \in {9, 11}  -> "Move"
      [] b \in {17, 18} -> "GCOL"
      [] b = 19         -> "RGB"
      [] b = 21         -> "Comment"
      [] b = 25         -> "Underline"
      [] b = 26         -> "Font"
      [] b \in {27, 28} -> "Matrix"

\* the offsets from pos up to lim whose byte is below 32
ControlOffsets(str, lim, pos) == { t \in pos..(lim - 1) : str[t + 1] < 32 }

\* the smallest element of a non-empty set of integers
Least(S) == CHOOSE t \in S : \A u \in S : t <= u

\* the spans <<kind, start, end>> the claimed sizes give for the records of
\* str[0 .. lim - 1] from offset pos on, and whether every control record
\* met on the way is fully present before lim
RECURSIVE ClaimedSpans(_, _, _)
ClaimedSpans(str, lim, pos) ==
    IF pos >= lim THEN [ok |-> TRUE, spans |-> << >>]
    ELSE LET b == str[pos + 1]
         IN  IF b \in Terminators \/ IsUnknownControl(b)
             THEN [ok |-> TRUE, spans |-> << >>]
             ELSE LET stops == ControlOffsets(str, lim, pos + 1)
                      end == IF IsPrintable(b)
                             THEN (IF stops = {} THEN lim ELSE Least(stops))
                             ELSE IF b = 21
                             THEN (IF stops = {} THEN lim + 1 ELSE Least(stops) + 1)
                             ELSE ClaimedEnd(pos, b)
                  IN  IF end > lim THEN [ok |-> FALSE, spans |-> << >>]
                      ELSE LET rest == ClaimedSpans(str, lim, end)
                           IN  [ok |-> rest.ok,
                                spans |-> << <<IF IsPrintable(b) THEN "String"
                                               ELSE ClaimedKind(b), pos, end>> >>
                                          \o rest.spans]

\* the spans of the parser's sequence
SequenceSpans ==
    [i \in 1..Len(sequence) |->
        <<sequence[i].kind, sequence[i].index_start, sequence[i].index_end>>]

\* the end of the last span, 0 for an empty sequence
SpansEnd ==
    IF sequence = << >> THEN 0 ELSE sequence[Len(sequence)].index_end

(* C9: when every control record of the input is fully present, *)
(* each record's span starts at its opcode and has the claimed length (4   *)
(* for 9 and 11, 2 for 17, 4 for 18, 8 for 19, 3 for 25, 2 for 26, and for *)
(* 27 / 28 up to 16 / 24 bytes after the next multiple of 4), each record  *)
(* starts where the one before ends, and the spans tile the buffer from 0  *)
(* to the final cursor.                                                    *)
C9_SpansTileToCursor ==
    (Parsed /\ ClaimedSpans(string, Limit, 0).ok) =>
        /\ failure = "none"
        /\ SequenceSpans = ClaimedSpans(string, Limit, 0).spans
        /\ index = SpansEnd

\* what parse does: the same spans and the same tiling from 0, up to the
\* final cursor when parse stopped at a terminator or at the end, and up to
\* one byte before the final cursor when parse stopped at an unknown control
\* byte (which is consumed but belongs to no record)
C9_SpansTile ==
    (Parsed /\ ClaimedSpans(string, Limit, 0).ok) =>
        /\ failure = "none"
        /\ SequenceSpans = ClaimedSpans(string, Limit, 0).spans
        /\ index = SpansEnd + (IF stop = "unknown" THEN 1 ELSE 0)

\* a record followed by a matrix record that needed alignment bytes
C9_Witness ==
    /\ Parsed
    /\ ClaimedSpans(string, Limit, 0).ok
    /\ Len(sequence) = 2
    /\ sequence[2].kind = "Matrix"
    /\ sequence[2].index_start % 4 = 2
    /\ sequence[2].index_end = index

(* C3: after any sequence of parse calls, with or without clear or reset   *)
(* between them, no two adjacent records of the sequence are both String   *)
(* records.                                                                *)
C3_NoAdjacentStrings ==
    \A i \in 1..(Len(sequence) - 1) :
        ~(sequence[i].kind = "String" /\ sequence[i + 1].kind = "String")

\* a second parse call extended the String record a first call had left
C3_Witness ==
    /\ parses = 2
    /\ Len(sequence) = 1
    /\ sequence[1].kind = "String"
    /\ Len(sequence[1].string) = 3
    /\ Len(string) = 1

(* C4: every record of a sequence produced by one parse of a cleared       *)
(* parser, and every String record apply_spacing yields over it for any    *)
(* spacing and split_char, has index_start < index_end; every MoveChar or  *)
(* MoveSpace record apply_spacing yields has index_start = index_end.      *)
C4_SpanWidths ==
    /\ \A i \in 1..Len(sequence) :
           sequence[i].index_start < sequence[i].index_end
    /\ \A i \in 1..Len(yielded) :
           /\ yielded[i].kind = "String"
                  => yielded[i].index_start < yielded[i].index_end
           /\ yielded[i].kind \in {"MoveCharacter", "MoveSpace"}
                  => yielded[i].index_start = yielded[i].index_end

\* a String split at a space and expanded by characters, with both kinds
\* of injected move
C4_Witness ==
    /\ arg_split_char = Some(32)
    /\ \E i \in 1..Len(yielded) : yielded[i].kind = "MoveCharacter"
    /\ \E i \in 1..Len(yielded) : yielded[i].kind = "MoveSpace"
    /\ \E i \in 1..Len(yielded) :
           yielded[i].kind = "String" /\ yielded[i].index_start > 0
    /\ Len(sequence) = 1
    /\ Len(yielded) > 3

\* record i of the sequence came from a complete opcode 18 or 19
IsColourPair(i) ==
    /\ sequence[i].kind \in {"GCOL", "RGB"}
    /\ string[sequence[i].index_start + 1] \in {18, 19}
    /\ sequence[i].index_end <= Len(string)

(* C10: for opcode 18 (bytes bg, fg, offset) and opcode 19 (bg channels,   *)
(* fg channels, offset) the emitted GCOL / RGB record carries the offset   *)
(* byte as its offset payload, and applying the record calls select_colour *)
(* with fgoffset equal to that byte.                                       *)
C10_OffsetCarried ==
    \A i \in 1..Len(sequence) :
        (IsColourPair(i) /\ applied = i) =>
            /\ sequence[i].offset = Some(string[sequence[i].index_end])
            /\ Get(select_colour_args).fgoffset
                   = Some(string[sequence[i].index_end])

\* a select_colour call has been made on the context
ColourSelected == ~IsNone(select_colour_args)

(* C11: after any select_colour call, with any subset of its five          *)
(* parameters set to any integers and from any reachable context state,    *)
(* fg = saturate(fgbase + fgoffset, 0, maxcol), 0 <= fg <= maxcol and      *)
(* 0 <= bg <= maxcol.                                                      *)
C11_ColoursInRange ==
    ColourSelected =>
        /\ context.fg = saturate(context.fgbase + context.fgoffset, 0, context.maxcol)
        /\ 0 <= context.fg /\ context.fg <= context.maxcol
        /\ 0 <= context.bg /\ context.bg <= context.maxcol

(* C12: in every state reachable from a new context by any sequence of     *)
(* select_colour calls and GCOL / RGB record applications,                 *)
(* fgpal = gcol_to_rgb(fg) and bgpal = gcol_to_rgb(bg).                    *)
C12_PaletteCoherent ==
    /\ context.fgpal = gcol_to_rgb(context.fg)
    /\ context.bgpal = gcol_to_rgb(context.bg)

\* the last select_colour call set a palette parameter and both RGB ones
BothKindsSet ==
    /\ ColourSelected
    /\ ~IsNone(Get(select_colour_args).bg) \/ ~IsNone(Get(select_colour_args).fg)
    /\ ~IsNone(Get(select_colour_args).bgpal)
    /\ ~IsNone(Get(select_colour_args).fgpal)

(* C13: when one select_colour call sets both palette parameters (bg / fg) *)
(* and RGB parameters (bgpal / fgpal), the palette ones are processed      *)
(* first and the RGB ones second: the final fgpal and bgpal are the RGB    *)
(* values supplied in the call, and the final bg / fg are re-derived from  *)
(* those values by rgb_to_gcol, not taken from the palette parameters.     *)
C13_RGBWins ==
    BothKindsSet =>
        LET a == Get(select_colour_args)
        IN  /\ context.fgpal = Get(a.fgpal)
            /\ context.bgpal = Get(a.bgpal)
            /\ context.fg = rgb_to_gcol(Get(a.fgpal))
            /\ context.bg = rgb_to_gcol(Get(a.bgpal))

(* C13 amended: when one select_colour call sets both palette parameters   *)
(* and RGB parameters, the palette ones are processed first and the RGB    *)
(* ones second: the final bg / fg are re-derived from the supplied RGB     *)
(* values by rgb_to_gcol, not taken from the palette parameters, and the   *)
(* final fgpal and bgpal are gcol_to_rgb of those re-derived fg and bg     *)
(* (the supplied RGB values only when these are exact palette colours).    *)
C13_RGBWinsQuantised ==
    BothKindsSet =>
        LET a == Get(select_colour_args)
        IN  /\ context.fg = rgb_to_gcol(Get(a.fgpal))
            /\ context.bg = rgb_to_gcol(Get(a.bgpal))
            /\ context.fgpal = gcol_to_rgb(context.fg)
            /\ context.bgpal = gcol_to_rgb(context.bg)

\* a call whose palette parameters name other colours than its RGB ones,
\* one of them an exact palette colour and the other not
C13_Witness ==
    /\ BothKindsSet
    /\ Get(select_colour_args).fg = Some(3)
    /\ Get(select_colour_args).bg = Some(3)
    /\ Get(select_colour_args).fgpal = Some(<<16, 255, 0, 255>>)
    /\ Get(select_colour_args).bgpal = Some(<<0, 128, 127, 200>>)
    /\ context.fg = 5
    /\ context.bg = 5

\* a size call has been repeated, and both calls returned
SizedTwice ==
    /\ ~IsNone(size_before)
    /\ Get(size_before).failure = "none"
    /\ Get(size_result).failure = "none"

\* the tuple and the bounds of the repeated call are those of the call before
SameAsBefore ==
    /\ Get(size_result).result = Get(size_before).result
    /\ context.bounds = Get(size_before).bounds

Sized == ~IsNone(size_args) /\ Get(size_result).failure = "none"

\* the records the last size call was given by apply_spacing
SizedRecords ==
    LET a == Get(size_args)
    IN  apply_spacing(sequence, a.spacing, a.split_char, a.python3)

\* the context the last size call started its loop with
SizedFrom ==
    LET a == Get(size_args)
    IN  size_start(a.before, a.limits, FALSE)

\* the context after the first n records of ys are applied to c in turn
RECURSIVE AppliedTo(_, _, _)
AppliedTo(c, ys, n) ==
    IF n = 0 THEN c ELSE apply(AppliedTo(c, ys, n - 1), ys[n]).c

\* the records of the last size call that leave the context beyond the limits
\* when the records up to them are applied
Exceeding ==
    { j \in 1..Len(SizedRecords) : beyond_limits(AppliedTo(SizedFrom, SizedRecords, j)) }

Greatest(S) == CHOOSE t \in S : \A u \in S : t >= u

\* a split_char that is a byte
IsByte(split_char) == ~IsNone(split_char) /\ Get(split_char) # -1

\* the records before the first exceeding one that are occurrences of the
\* split byte
OccurrencesBefore ==
    { p \in 1..(Least(Exceeding) - 1) :
          /\ SizedRecords[p].kind = "String"
          /\ SizedRecords[p].string = << Get(Get(size_args).split_char) >> }

\* the case of C15: a split byte, limits, a record that goes beyond them
\* and an occurrence of the byte applied before it
SplitAtLimit ==
    /\ Sized
    /\ IsByte(Get(size_args).split_char)
    /\ ~IsNone(Get(size_args).limits)
    /\ Exceeding # {}
    /\ OccurrencesBefore # {}

\* C15: with a split byte and limits, when a record takes the context
\* beyond the limits size returns (i, k), i the index just after the last
\* occurrence of the byte applied before that record and k the number of
\* occurrences applied up to it, and the context is the one that was left
\* right after that occurrence was applied
C15_SplitPointRestored ==
    SplitAtLimit =>
        LET p == Greatest(OccurrencesBefore)
        IN  /\ Get(size_result).result =
                    Some(<<SizedRecords[p].index_end, Cardinality(OccurrencesBefore)>>)
            /\ context = AppliedTo(SizedFrom, SizedRecords, p)

\* the case of C15 with records applied after the last occurrence and
\* before the exceeding one, whose effect is undone
C15_Witness ==
    /\ SplitAtLimit
    /\ Greatest(OccurrencesBefore) < Least(Exceeding) - 1
    /\ context.x > 0

\* the case of C16: one String at index 0, a font selected, no spacing, no
\* split_char, and limits (L, Ly) with L >= 0
OneStringLimited ==
    /\ Sized
    /\ Len(sequence) = 1
    /\ sequence[1].kind = "String"
    /\ sequence[1].index_start = 0
    /\ IsNone(Get(size_args).spacing)
    /\ IsNone(Get(size_args).split_char)
    /\ ~IsNone(Get(size_args).limits)
    /\ Get(Get(size_args).limits)[1] >= 0

\* the largest k <= n with k * w <= L
FittingCount(n, w, L) == Greatest({ k \in 0..n : k * w <= L })

\* C16: with no split_char and limits (L, Ly), L >= 0, a single String of n
\* bytes at index 0 in a font of advance w sizes to (k, k), k the largest
\* count <= n with k * w <= L; the cursor is left at x = k * w and the bounds
\* are the box of those k characters (no box when k = 0)
C16_CharacterFit ==
    OneStringLimited =>
        LET font == Fonts[Get(Get(size_args).font)]
            k == FittingCount(Len(sequence[1].string), font.xsize,
                              Get(Get(size_args).limits)[1])
        IN  /\ Get(size_result).result = Some(<<k, k>>)
            /\ context.x = k * font.xsize
            /\ context.y = 0
            /\ context.bounds = IF k = 0 THEN None
                                 ELSE Some(<<0, 0, k * font.xsize, font.ysize>>)

\* a String cut inside: some of its characters fit and some do not
C16_Witness ==
    /\ OneStringLimited
    /\ Get(Get(size_result).result)[1] \in 1..(Len(sequence[1].string) - 1)

\* the bytes of the Strings of a sequence, in order
RECURSIVE StringBytes(_)
StringBytes(seq) ==
    IF seq = << >> THEN << >>
    ELSE (IF Head(seq).kind = "String" THEN Head(seq).string ELSE << >>)
         \o StringBytes(Tail(seq))

\* the number of bytes of str that are in the set B
CountIn(str, B) == Cardinality({ i \in 1..Len(str) : str[i] \in B })

\* the splits C17 states: all the String bytes with no split_char, the
\* occurrences of the byte with a split byte
ClaimedSplits(seq, split_char) ==
    IF IsNone(split_char) THEN Len(StringBytes(seq))
    ELSE CountIn(StringBytes(seq), {Get(split_char)})

\* the box a String record covers when applied to c
StringBox(c, ctrl) ==
    LET sz == string_size(c, ctrl)
    IN  <<c.x + sz[1], c.y + sz[2], c.x + sz[3], c.y + sz[4]>>

\* box a lies within box b
Within(a, b) == a[1] >= b[1] /\ a[2] >= b[2] /\ a[3] <= b[3] /\ a[4] <= b[4]

\* the case of C17: a size call with limits unset and split_char None or a
\* byte, on a sequence with records
SizedUnlimited ==
    /\ Sized
    /\ IsNone(Get(size_args).limits)
    /\ Get(size_args).split_char # Some(-1)
    /\ sequence # << >>

\* C17: with limits unset, size applies every record and returns the
\* index_end of the last record with the splits: all the String bytes when
\* split_char is None, the occurrences of split_char in the Strings when it
\* is a byte; the cursor is where applying every record in turn leaves it
\* and the bounds cover every String where it was applied
C17_SizeUnlimited ==
    SizedUnlimited =>
        LET ys == SizedRecords
            end == AppliedTo(SizedFrom, ys, Len(ys))
        IN  /\ Get(size_result).result =
                    Some(<<sequence[Len(sequence)].index_end,
                           ClaimedSplits(sequence, Get(size_args).split_char)>>)
            /\ Exceeding = {}
            /\ context.x = end.x
            /\ context.y = end.y
            /\ \A j \in 1..Len(ys) :
                   ys[j].kind = "String" =>
                       Within(StringBox(AppliedTo(SizedFrom, ys, j - 1), ys[j]),
                              Get(context.bounds))

\* three letters, a change to font 2, two letters, sized from font 1
\* without limits: index 7, 5 splits, the cursor at 3 * 8 + 2 * 32
C17_Witness ==
    /\ SizedUnlimited
    /\ string = <<65, 65, 65, 26, 2, 65, 65>>
    /\ Get(size_args).font = Some(1)
    /\ IsNone(Get(size_args).spacing)
    /\ IsNone(Get(size_args).split_char)
    /\ Get(size_result).result = Some(<<7, 5>>)
    /\ context.x = 88
    /\ context.bounds = Some(<<0, 0, 88, 32>>)

\* a sequence with a space sized without limits and with the space as
\* split_char: one split
C17_WitnessSplit ==
    /\ SizedUnlimited
    /\ Get(size_args).split_char = Some(32)
    /\ Get(Get(size_result).result)[2] = 1

\* the evaluations of beyond_limits the last size call made
Judged == IF IsNone(size_result) THEN << >> ELSE Get(size_result).judged

\* C18 as stated: a context is beyond the limits iff x > limit_x or
\* y > limit_y, whatever the signs of the limits
C18_BeyondSymmetric ==
    \A n \in 1..Len(Judged) :
        LET j == Judged[n]
        IN  j.beyond <=> (j.x > j.limitx \/ j.y > j.limity)

\* C18, by the sign of limit_y: a context is beyond the limits iff
\* x > limit_x, or y > limit_y with limit_y >= 0, or y < limit_y with
\* limit_y < 0; only limit_x is compared the same way for either sign
C18_BeyondBySign ==
    \A n \in 1..Len(Judged) :
        LET j == Judged[n]
        IN  j.beyond <=> \/ j.x > j.limitx
                         \/ j.limity >= 0 /\ j.y > j.limity
                         \/ j.limity < 0 /\ j.y < j.limity

\* a size call was stopped by a cursor below a negative limit_y alone, and
\* had let pass a cursor above that limit
C18_Witness ==
    /\ \E n \in 1..Len(Judged) :
           LET j == Judged[n]
           IN  j.beyond /\ j.limity < 0 /\ j.y < j.limity /\ j.x <= j.limitx
    /\ \E n \in 1..Len(Judged) :
           LET j == Judged[n]
           IN  ~j.beyond /\ j.limity < 0 /\ j.y > j.limity

\* yielded is what apply_spacing gave for the sequence as it is now
Expanded ==
    /\ ~IsNone(arg_spacing)
    /\ yielded = apply_spacing(sequence, arg_spacing, arg_split_char, py3)

\* the spacing apply_spacing was last given
Spacing == Get(arg_spacing)

\* word-split mode: a word offset is non-zero and both character offsets
\* are zero
WordSplitMode ==
    /\ Expanded
    /\ Spacing.word_xoffset # 0 \/ Spacing.word_yoffset # 0
    /\ Spacing.char_xoffset = 0 /\ Spacing.char_yoffset = 0

\* record i of yielded is a MoveSpace by the word offsets
IsWordMove(i) ==
    /\ i \in 1..Len(yielded)
    /\ yielded[i].kind = "MoveSpace"
    /\ yielded[i].dx = Spacing.word_xoffset
    /\ yielded[i].dy = Spacing.word_yoffset

\* C19: in word-split mode apply_spacing splits every String at its spaces,
\* each piece keeping the space that ends it, and yields a MoveSpace by the
\* word offsets after every piece whose last byte is a space (and nowhere
\* else)
C19_WordSplit ==
    WordSplitMode =>
        /\ StringBytes(yielded) = StringBytes(sequence)
        /\ \A i \in 1..Len(yielded) :
               yielded[i].kind = "String" =>
                   LET str == yielded[i].string
                   IN  /\ str # << >>
                       /\ \A k \in 1..(Len(str) - 1) : str[k] # 32
                       /\ str[Len(str)] = 32 => IsWordMove(i + 1)
        /\ \A i \in 1..Len(yielded) :
               yielded[i].kind = "MoveSpace" =>
                   /\ IsWordMove(i)
                   /\ i > 1
                   /\ yielded[i - 1].kind = "String"
                   /\ yielded[i - 1].string[Len(yielded[i - 1].string)] = 32

\* character-split mode: a character offset is non-zero
CharSplitMode ==
    /\ Expanded
    /\ Spacing.char_xoffset # 0 \/ Spacing.char_yoffset # 0

\* record i of yielded is a MoveCharacter by the character offsets
IsCharMove(i) ==
    /\ i \in 1..Len(yielded)
    /\ yielded[i].kind = "MoveCharacter"
    /\ yielded[i].dx = Spacing.char_xoffset
    /\ yielded[i].dy = Spacing.char_yoffset

\* the sum of the x offsets (or, with vertical, the y offsets) of the
\* MoveCharacter and MoveSpace records of ys
RECURSIVE MovedBy(_, _)
MovedBy(ys, vertical) ==
    IF ys = << >> THEN 0
    ELSE (IF Head(ys).kind \in {"MoveCharacter", "MoveSpace"}
          THEN (IF vertical THEN Head(ys).dy ELSE Head(ys).dx)
          ELSE 0) + MovedBy(Tail(ys), vertical)

\* C20: in character-split mode apply_spacing yields every byte of every
\* String as a String of its own, followed by a MoveCharacter by the
\* character offsets, the last byte included, and then by a MoveSpace by the
\* word offsets when the byte is a space and a word offset is non-zero; the
\* moves of n bytes with s spaces add up to n * char_dx + s * word_dx (and
\* the same in y)
C20_CharSplit ==
    CharSplitMode =>
        LET all == StringBytes(sequence)
            n == Len(all)
            spaces == IF Spacing.word_xoffset # 0 \/ Spacing.word_yoffset # 0
                      THEN CountIn(all, {32}) ELSE 0
        IN  /\ StringBytes(yielded) = all
            /\ \A i \in 1..Len(yielded) :
                   yielded[i].kind = "String" =>
                       /\ Len(yielded[i].string) = 1
                       /\ IsCharMove(i + 1)
                       /\ IsWordMove(i + 2) <=>
                              /\ yielded[i].string = <<32>>
                              /\ Spacing.word_xoffset # 0 \/ Spacing.word_yoffset # 0
            /\ \A i \in 1..Len(yielded) :
                   /\ yielded[i].kind = "MoveCharacter"
                          => i > 1 /\ yielded[i - 1].kind = "String"
                   /\ yielded[i].kind = "MoveSpace"
                          => i > 2 /\ yielded[i - 2].kind = "String" /\ IsWordMove(i)
            /\ MovedBy(yielded, FALSE) = n * Spacing.char_xoffset
                                          + spaces * Spacing.word_xoffset
            /\ MovedBy(yielded, TRUE) = n * Spacing.char_yoffset
                                         + spaces * Spacing.word_yoffset

\* a text of letters and a space expanded by characters with a word offset:
\* a move after every byte, the last included, and one more after the space
C20_Witness ==
    /\ CharSplitMode
    /\ Spacing.word_xoffset # 0
    /\ Len(sequence) = 1
    /\ sequence[1].kind = "String"
    /\ Len(sequence[1].string) = 3
    /\ Len(yielded) = 7
    /\ yielded[Len(yielded)].kind = "MoveCharacter"
    /\ \E i \in 1..Len(yielded) : yielded[i].kind = "MoveSpace"

\* yielded is what apply_spacing gave, with the arguments last used, for the
\* sequence as it is now
YieldedNow == yielded = apply_spacing(sequence, arg_spacing, arg_split_char, py3)

\* the spacing last given is None or has all four offsets zero
FalsySpacing ==
    \/ IsNone(arg_spacing)
    \/ /\ Get(arg_spacing).word_xoffset = 0 /\ Get(arg_spacing).word_yoffset = 0
       /\ Get(arg_spacing).char_xoffset = 0 /\ Get(arg_spacing).char_yoffset = 0

\* C21: apply_spacing with a spacing that is None or has all four offsets
\* zero, and no split_char, yields the records of the sequence, in order,
\* nothing added and nothing removed
C21_FalsySpacingIdentity ==
    (YieldedNow /\ FalsySpacing /\ IsNone(arg_split_char))
        => yielded = sequence

\* a spacing object with all offsets zero given for a sequence with a
\* String that has a space, next to another record
C21_Witness ==
    /\ YieldedNow
    /\ arg_spacing = Some(FontSpacing(None, None))
    /\ IsNone(arg_split_char)
    /\ Len(sequence) = 2
    /\ \E i \in 1..2 : sequence[i].kind = "String" /\ sequence[i].string = <<65, 32>>
    /\ yielded = sequence

\* a paint call has been made and returned
Painted == ~IsNone(paint_args) /\ paint_failure = "none"

\* the records the paint call was given by apply_spacing
PaintedRecords ==
    LET a == Get(paint_args)
    IN  apply_spacing(sequence, a.spacing, None, a.python3)

\* the context the paint call started its loop with
PaintedFrom ==
    [Get(paint_args).before EXCEPT !.bounds = None, !.underline_pos = 0,
                                   !.underline_thickness = 0]

\* the cursor, font, colours and underline metrics before record i is
\* painted: those left by applying the records before it
BeforePainting(i) == AppliedTo(PaintedFrom, PaintedRecords, i - 1)

\* the bar C22 states for a record with advance xoffset painted at c
ClaimedBar(c, xoffset) ==
    <<c.x, c.y + (c.underline_pos - c.underline_thickness) \div 256,
      c.x + xoffset, c.y + c.underline_pos \div 256>>

\* the calls stated for painting record i: for a String the bar, when the
\* thickness is not 0, and then the text; for an injected move the bar under
\* its gap, when the thickness is not 0; for any other record none
ClaimedCalls(i) ==
    LET ctrl == PaintedRecords[i]
        c == BeforePainting(i)
        bar(xoffset) == IF c.underline_thickness # 0
                        THEN << [kind |-> "underline", rect |-> ClaimedBar(c, xoffset),
                                 fg |-> c.fg] >>
                        ELSE << >>
    IN  IF ctrl.kind = "String"
        THEN bar(Len(ctrl.string) * Fonts[Get(c.font)].xsize)
             \o << [kind |-> "text", string |-> ctrl.string, font |-> Get(c.font),
                     x |-> c.x, y |-> c.y, bg |-> c.bg, fg |-> c.fg] >>
        ELSE IF ctrl.kind \in {"MoveCharacter", "MoveSpace"} THEN bar(ctrl.dx)
        ELSE << >>

RECURSIVE ClaimedCallsTo(_)
ClaimedCallsTo(n) == IF n = 0 THEN << >> ELSE ClaimedCallsTo(n - 1) \o ClaimedCalls(n)

\* the bounds with the bars of the first n calls of ops added
RECURSIVE WithBars(_, _, _)
WithBars(bounds, ops, n) ==
    IF n = 0 THEN bounds
    ELSE LET rest == WithBars(bounds, ops, n - 1)
         IN  IF ops[n].kind = "underline" THEN bounds_add(rest, ops[n].rect) ELSE rest

\* C22: painting a String while underline_thickness is not 0 calls
\* draw_underline once, before font_paint for that String, with the bar
\* (cx, cy + underline_pos - underline_thickness, cx + xoffset,
\* cy + underline_pos) at the cursor before the advance, and adds the bar to
\* the bounds; while underline_thickness is 0 it makes no draw_underline
\* call.  (The moves apply_spacing injects draw the bar under their gap, and
\* no other record draws.)
C22_UnderlineCalls ==
    Painted =>
        /\ paint_ops = ClaimedCallsTo(Len(PaintedRecords))
        /\ context.bounds =
               WithBars(AppliedTo(PaintedFrom, PaintedRecords, Len(PaintedRecords)).bounds,
                        paint_ops, Len(paint_ops))

\* underline on at position -16 and thickness 32, three letters, underline
\* off, one letter, painted in font 1 of height 16: one bar, from the
\* cursor of the first String and under it alone
C22_Witness ==
    /\ Painted
    /\ string = <<25, 240, 32, 65, 65, 65, 25, 0, 0, 65>>
    /\ Get(paint_args).before.font = Some(1)
    /\ Len(paint_ops) = 3
    /\ paint_ops[1].kind = "underline"
    /\ paint_ops[1].rect = <<0, -3, 24, -1>>
    /\ paint_ops[2].kind = "text"
    /\ paint_ops[3].kind = "text"
    /\ context.bounds = Some(<<0, -3, 32, 16>>)

\* a call recorded by paint is a draw_underline call
IsBar(op) == op.kind = "underline"

IsText(op) == op.kind = "text"

\* the bars drawn by the paint call, in order
Bars == SelectSeq(paint_ops, IsBar)

\* a record that has the underline mixin
HasMixin(ctrl) == ctrl.kind \in {"String", "MoveCharacter", "MoveSpace"}

RECURSIVE CountMixin(_)
CountMixin(ys) ==
    IF ys = << >> THEN 0
    ELSE (IF HasMixin(Head(ys)) THEN 1 ELSE 0) + CountMixin(Tail(ys))

\* the case of C23: the sequence painted ends with its only String, and
\* the underline is active when the String is painted
OneStringUnderlined ==
    /\ Painted
    /\ sequence # << >>
    /\ sequence[Len(sequence)].kind = "String"
    /\ \A i \in 1..(Len(sequence) - 1) : sequence[i].kind # "String"
    /\ context.underline_thickness # 0

\* C23: while underline is active every piece of a String and every
\* MoveCharacter and MoveSpace injected after a piece draws a bar, the bar
\* of a move running from the cursor x to x + dx, so the bars of the
\* successive pieces of one String are contiguous: the first starts where
\* the first piece is painted, each next one starts at the x the one before
\* ended at, and the last ends at the final cursor
C23_BarsContiguous ==
    OneStringUnderlined =>
        /\ Len(Bars) = CountMixin(PaintedRecords)
        /\ Bars[1].rect[1] = SelectSeq(paint_ops, IsText)[1].x
        /\ \A k \in 1..(Len(Bars) - 1) : Bars[k + 1].rect[1] = Bars[k].rect[3]
        /\ Bars[Len(Bars)].rect[3] = context.x

\* two words expanded by characters with a word offset and painted
\* underlined: three letters' bars, three character gaps and a word gap
C23_Witness ==
    /\ OneStringUnderlined
    /\ sequence[Len(sequence)].string = <<65, 32, 65>>
    /\ Len(Bars) = 7
    /\ \E k \in 1..Len(Bars) : Bars[k].rect[3] - Bars[k].rect[1] = 5
    /\ \E k \in 1..Len(Bars) : Bars[k].rect[3] - Bars[k].rect[1] = 2

\* the sum of the dx (or, with vertical, the dy) of the Move records among
\* the first n records of the sequence
RECURSIVE MovesTo(_, _)
MovesTo(n, vertical) ==
    IF n = 0 THEN 0
    ELSE (IF sequence[n].kind = "Move"
          THEN (IF vertical THEN sequence[n].dy ELSE sequence[n].dx)
          ELSE 0) + MovesTo(n - 1, vertical)

\* the record last applied is a Matrix record
MatrixApplied ==
    /\ applied \in 1..Len(sequence)
    /\ sequence[applied].kind = "Matrix"

\* C24: applying a Matrix record sets the transform of the context to the
\* matrix of the record, whatever the transform was, and does not move the
\* cursor: the cursor is where the records before left it
C24_MatrixReplaces ==
    MatrixApplied =>
        /\ context.transform = sequence[applied].matrix
        /\ context.x = AppliedTo(NewContext, sequence, applied - 1).x
        /\ context.y = AppliedTo(NewContext, sequence, applied - 1).y

\* a Matrix record applied after a different Matrix record and a Move
C24_Witness ==
    /\ MatrixApplied
    /\ applied = 3
    /\ sequence[1].kind = "Matrix"
    /\ sequence[2].kind = "Move"
    /\ sequence[1].matrix # sequence[3].matrix
    /\ sequence[1].matrix # IdentityMatrix
    /\ context.x # 0

\* C25: a copy equals the context it was taken from in every field, and
\* whatever the host then does with one of the two (records applied,
\* select_font, select_colour, size) leaves the other as it was when the
\* copy was taken, bounds included
C25_CopyIndependent ==
    ~IsNone(copied) =>
        LET k == Get(copied)
        IN  /\ k.side = "none" => k.c = context /\ context = k.at_copy
            /\ k.side = "context" => k.c = k.at_copy
            /\ k.side = "copy" => context = k.at_copy

\* a context with a font, a cursor and bounds of its own copied, and a
\* String then applied to it: its bounds grow and the copy keeps the old
C25_Witness ==
    /\ ~IsNone(copied)
    /\ Get(copied).side = "context"
    /\ Get(copied).at_copy.font = Some(1)
    /\ Get(copied).at_copy.bounds = Some(<<0, 0, 16, 16>>)
    /\ Get(copied).c.x = 16
    /\ context.bounds = Some(<<0, 0, 32, 16>>)
    /\ context.x = 32

\* a String applied to the copy, the context keeping its bounds
C25_WitnessCopy ==
    /\ ~IsNone(copied)
    /\ Get(copied).side = "copy"
    /\ context.bounds = Some(<<0, 0, 16, 16>>)
    /\ Get(copied).c.bounds = Some(<<0, 0, 32, 16>>)

\* the offset of the first byte below 32 after the opcode of the comment
\* record i, or the end of what parse may read when there is none
CommentEnd(i) ==
    LET stops == ControlOffsets(string, Limit, sequence[i].index_start + 1)
    IN  IF stops = {} THEN Limit ELSE Least(stops)

\* the comment record i is ended by a byte of the input
CommentEnded(i) == CommentEnd(i) < Limit

\* C26: a Comment record holds the bytes after its opcode up to, and
\* without, the first byte below 32 or the end of the input; its span ends
\* just after that byte and parsing goes on from the byte after it: the
\* byte is not read again as a terminator or an opcode, so the cursor is
\* never left before it and a printable byte after it starts a String
\* record there
C26_CommentSpan ==
    Parsed =>
        \A i \in 1..Len(sequence) :
            sequence[i].kind = "Comment" =>
                /\ sequence[i].comment =
                       Slice(string, sequence[i].index_start + 1, CommentEnd(i))
                /\ CommentEnded(i) =>
                       /\ sequence[i].index_end = CommentEnd(i) + 1
                       /\ index >= CommentEnd(i) + 1
                       /\ i < Len(sequence) =>
                              sequence[i + 1].index_start = CommentEnd(i) + 1
                       /\ (/\ CommentEnd(i) + 1 < Limit
                           /\ IsPrintable(string[CommentEnd(i) + 2])) =>
                              /\ i < Len(sequence)
                              /\ sequence[i + 1].kind = "String"

\* an empty comment ended by a line feed, and a String after it
C26_Witness ==
    /\ Parsed
    /\ string = <<21, 10, 65>>
    /\ IsNone(arg_max_length)
    /\ Len(sequence) = 2
    /\ sequence[1].kind = "Comment"
    /\ sequence[1].index_end = 2
    /\ sequence[2].kind = "String"
    /\ index = 3

\* a comment of one byte ended by a byte that is an opcode elsewhere
C26_WitnessPayload ==
    /\ Parsed
    /\ string = <<21, 65, 9>>
    /\ sequence = <<FontControlComment(<<0, 3>>, <<65>>)>>

\* the unsigned number the three bytes after the opcode at offset pos of
\* the buffer make, the low byte first
MoveOperand(pos) ==
    string[pos + 2] + 256 * string[pos + 3] + 65536 * string[pos + 4]

\* the sequence painted holds Move records and nothing else that moves the
\* cursor or paints
OnlyMoves ==
    /\ Painted
    /\ \A i \in 1..Len(sequence) : sequence[i].kind \in {"Move", "Font", "Underline"}

\* C27: opcode 9 gives a Move record with dx the unsigned 24 bit number of
\* its three bytes and dy 0, opcode 11 one with dx 0 and dy that number;
\* painting a sequence of such records moves the cursor by the sum of their
\* (dx, dy) and paints nothing
C27_MoveRecords ==
    Painted =>
        /\ \A i \in 1..Len(sequence) :
               sequence[i].kind = "Move" =>
                   LET pos == sequence[i].index_start
                       v == MoveOperand(pos)
                   IN  /\ v \in 0..(2 ^ 24 - 1)
                       /\ string[pos + 1] = 9 => sequence[i].dx = v /\ sequence[i].dy = 0
                       /\ string[pos + 1] = 11 => sequence[i].dx = 0 /\ sequence[i].dy = v
        /\ OnlyMoves =>
               /\ context.x = Get(paint_args).before.x + MovesTo(Len(sequence), FALSE)
               /\ context.y = Get(paint_args).before.y + MovesTo(Len(sequence), TRUE)
               /\ paint_ops = << >>

\* a move right by 4 and a move up by the greatest operand, painted
C27_Witness ==
    /\ OnlyMoves
    /\ string = <<9, 4, 0, 0, 11, 255, 255, 255>>
    /\ context.x = 4
    /\ context.y = 16777215
    /\ paint_ops = << >>

\* the case of C28: no split_char, and the first record to go beyond the
\* limits is a String of more than one byte
StringExceeds ==
    /\ Sized
    /\ IsNone(Get(size_args).split_char)
    /\ Exceeding # {}
    /\ SizedRecords[Least(Exceeding)].kind = "String"
    /\ Len(SizedRecords[Least(Exceeding)].string) > 1

\* the index_end of the record applied before record j, 0 when j is the
\* first
EndBefore(j) == IF j = 1 THEN 0 ELSE SizedRecords[j - 1].index_end

\* the number of bytes of the String records of ys that lie before offset at
RECURSIVE StringBytesBefore(_, _)
StringBytesBefore(ys, at) ==
    IF ys = << >> THEN 0
    ELSE (IF Head(ys).kind = "String"
          THEN Cardinality({ t \in Head(ys).index_start..(Head(ys).index_end - 1) : t < at })
          ELSE 0) + StringBytesBefore(Tail(ys), at)

\* C28: with no split_char, when a String of more than one byte is the
\* first record to go beyond the limits, size returns an index that is at
\* least the index_end of the record applied before the String and at most
\* the index_end of the String, and the splits it returns are the String
\* bytes that lie before that index
C28_IndexInsideString ==
    StringExceeds =>
        LET j == Least(Exceeding)
            result == Get(Get(size_result).result)
        IN  /\ result[1] >= EndBefore(j)
            /\ result[1] <= SizedRecords[j].index_end
            /\ result[2] = StringBytesBefore(SizedRecords, result[1])

\* what size does: the same when a character of the String fits, or the
\* String is the first record; when none fits the index is 0 and the
\* splits are those of the records before the String
C28_IndexOrZero ==
    StringExceeds =>
        LET j == Least(Exceeding)
            result == Get(Get(size_result).result)
        IN  \/ /\ result[1] > SizedRecords[j].index_start
               /\ result[1] <= SizedRecords[j].index_end
               /\ result[2] = StringBytesBefore(SizedRecords, result[1])
            \/ /\ result[1] = 0
               /\ result[2] = StringBytesBefore(SizedRecords, SizedRecords[j].index_start)
               /\ context = AppliedTo(SizedFrom, SizedRecords, j - 1)

\* a String after other records cut inside: some characters fit
C28_WitnessSomeFit ==
    /\ StringExceeds
    /\ Least(Exceeding) > 1
    /\ Get(Get(size_result).result)[1] > SizedRecords[Least(Exceeding)].index_start

\* the String records yielded whose span lies within the span of ctrl
PiecesOf(ctrl) ==
    LET Inside(y) == /\ y.kind = "String"
                     /\ y.index_start >= ctrl.index_start
                     /\ y.index_end <= ctrl.index_end
    IN  SelectSeq(yielded, Inside)

\* the spans of the records ps, none empty, each as long as its payload,
\* follow one another from offset from to offset to
RECURSIVE Tiles(_, _, _)
Tiles(ps, from, to) ==
    IF ps = << >> THEN from = to
    ELSE /\ Head(ps).index_start = from
         /\ Head(ps).index_end > from
         /\ Head(ps).index_end = from + Len(Head(ps).string)
         /\ Tiles(Tail(ps), Head(ps).index_end, to)

\* C29: whatever the split_char and the spacing, the String records that
\* _apply_splits and apply_spacing yield for a String record hold, in
\* order, the bytes of that record, their spans follow one another from its
\* index_start to its index_end, and none of them is empty; no String is
\* yielded that is not a piece of a String record
C29_PiecesTile ==
    YieldedNow =>
        /\ \A i \in 1..Len(sequence) :
               sequence[i].kind = "String" =>
                   /\ StringBytes(PiecesOf(sequence[i])) = sequence[i].string
                   /\ Tiles(PiecesOf(sequence[i]),
                            sequence[i].index_start, sequence[i].index_end)
        /\ StringBytes(yielded) = StringBytes(sequence)

\* a String broken at its space by split_char, and its pieces then spaced
C29_Witness ==
    /\ YieldedNow
    /\ sequence = <<FontControlString(<<0, 3>>, <<65, 32, 65>>)>>
    /\ arg_split_char = Some(32)
    /\ Truthy(arg_spacing)
    /\ Len(PiecesOf(sequence[1])) = 3

\* a parse call has been made on a parser that was not cleared since the
\* parse call before
ParsedAgain == parses' = parses + 1 /\ sequence # << >>

\* the records of the sequence are still there, as they were, after the step
RecordsKept ==
    /\ Len(sequence') >= Len(sequence)
    /\ SubSeq(sequence', 1, Len(sequence)) = sequence

\* C30: a parse call on a parser that was not cleared only adds records
\* after the ones the sequence holds: none of those has its payload or its
\* span changed, and the span of every record of the sequence starts before
\* it ends
C30_ParseOnlyAppends ==
    /\ [](\A i \in 1..Len(sequence) : sequence[i].index_start < sequence[i].index_end)
    /\ [][ParsedAgain => RecordsKept]_vars

\* the case of C31: a split byte, and a record that goes beyond the limits
\* with no occurrence of the byte applied before it
NoSplitBeforeLimit ==
    /\ Sized
    /\ IsByte(Get(size_args).split_char)
    /\ Exceeding # {}
    /\ OccurrencesBefore = {}

\* C31: with a split byte, when the limits are exceeded before any
\* occurrence of the byte has been applied, size returns (0, 0) and leaves
\* the context as it was at the start of the walk: the cursor at (0, 0),
\* the bounds empty, and the font, the colours and the transform of entry
C31_NoSplitRestoresStart ==
    NoSplitBeforeLimit =>
        LET entry == Get(size_args).before
        IN  /\ Get(size_result).result = Some(<<0, 0>>)
            /\ context.x = 0 /\ context.y = 0
            /\ context.bounds = None
            /\ context.font = entry.font
            /\ context.font_handle = entry.font_handle
            /\ context.transform = entry.transform
            /\ \A fld \in {"bg", "fg", "fgbase", "fgoffset", "fgpal", "bgpal"} :
                   context[fld] = entry[fld]

\* a word that fits, a change of font and a word that goes beyond limit_x,
\* with no occurrence of the split byte
C31_Witness ==
    /\ NoSplitBeforeLimit
    /\ Least(Exceeding) > 1
    /\ AppliedTo(SizedFrom, SizedRecords, Least(Exceeding) - 1).x > 0
    /\ AppliedTo(SizedFrom, SizedRecords, Least(Exceeding)).font # context.font

\* the case of C32: a size call that returned, with limits that are both
\* zero or above
SizedWithin ==
    /\ Sized
    /\ ~IsNone(Get(size_args).limits)
    /\ Get(Get(size_args).limits)[1] >= 0
    /\ Get(Get(size_args).limits)[2] >= 0

\* C32: with limit_x >= 0 and limit_y >= 0, a size call that returns, at
\* the end of the records or after going back, with or without split_char
\* and spacing, leaves the cursor with x <= limit_x and y <= limit_y
C32_CursorWithinLimits ==
    SizedWithin =>
        /\ context.x <= Get(Get(size_args).limits)[1]
        /\ context.y <= Get(Get(size_args).limits)[2]

\* a second move up goes beyond limit_y and is undone, the cursor left
\* where the first move took it
C32_Witness ==
    /\ SizedWithin
    /\ Exceeding # {}
    /\ SizedRecords[Least(Exceeding)].kind = "Move"
    /\ AppliedTo(SizedFrom, SizedRecords, Least(Exceeding)).y = 4
    /\ context.y = 2

\* every record applied within limits that are both above zero
C32_WitnessAll ==
    /\ SizedWithin
    /\ Exceeding = {}
    /\ context.x = 24
    /\ context.y = 2

\* the record the host has just applied is one that draws nothing
AppliedHidden ==
    /\ applied' = applied + 1
    /\ sequence[applied'].kind \in
           {"GCOL", "RGB", "Underline", "Font", "Matrix", "Comment"}

\* C33: applying a GCOL, RGB, Underline, Font, Matrix or Comment record
\* never moves the cursor, and applying a Comment changes no field of the
\* context at all, the accumulated bounds included
C33_HiddenRecordsKeepContext ==
    [][AppliedHidden =>
           /\ context'.x = context.x
           /\ context'.y = context.y
           /\ sequence[applied'].kind = "Comment" => context' = context]_vars

\* the record the host has just applied is a String, applied under a
\* transform that is not the identity and with a font selected
AppliedStringTransformed ==
    /\ applied' = applied + 1
    /\ sequence[applied'].kind = "String"
    /\ ~IsNone(context.font)
    /\ context.transform # IdentityMatrix

\* the glyph advance of the String just applied through the 2x2 part of
\* the transform, the translation left out
TransformedAdvance ==
    LET t == context.transform
        raw == font_bounds(context, Some(sequence[applied'].string))
    IN  <<(t.a.num * raw[5] + t.c.num * raw[6]) \div 65536,
          (t.b.num * raw[5] + t.d.num * raw[6]) \div 65536>>

\* C34: under a transform that is not the identity the cursor advance of a
\* String is the transformed glyph advance only: the translation (e, f) of
\* the transform is not added to x or y
C34_AdvanceWithoutTranslation ==
    [][AppliedStringTransformed =>
           /\ context'.x = context.x + TransformedAdvance[1]
           /\ context'.y = context.y + TransformedAdvance[2]]_vars

\* C35: nskipped_controls() is never negative after any sequence of parse,
\* reset and clear calls: the cursor is at least the length of
\* simple_string()
C35_SkippedNotNegative == nskipped_controls(Parser) >= 0

\* parse is in one of its loops
Parsing == stop = "running"

\* the next read is at or past the end of the buffer or max_length
AtEnd == index >= Len(string) \/ index >= max_length

\* C36: parse terminates on every finite buffer and every max_length: an
\* iteration of the dispatch loop or of the comment loop after which parse
\* is still running has strictly advanced the cursor, an iteration that
\* reads at or past the end of the buffer or max_length ends the loop it
\* is in, and a parse that is running comes to an end
C36_ParseTerminates ==
    /\ [][(Parsing /\ Parsing') => index' > index]_vars
    /\ [][(Parsing /\ AtEnd) =>
              IF IsNone(comment_loop) THEN ~Parsing' ELSE IsNone(comment_loop')]_vars
    /\ Parsing ~> ~Parsing

\* a parse ended by reads past the end of the buffer: one ended its
\* comment loop, the next its dispatch loop
C36_Witness ==
    /\ stop = "terminator"
    /\ index > Len(string)
    /\ IsNone(arg_max_length)
    /\ Len(sequence) = 2
    /\ sequence[1].kind = "String"
    /\ sequence[2].kind = "Comment"
    /\ sequence[2].comment = <<65>>

\* a parse ended by a read at max_length, with bytes of the buffer left
C36_WitnessMaxLength ==
    /\ stop = "terminator"
    /\ index = max_length
    /\ index < Len(string)
    /\ sequence # << >>

\* the arguments of a select_colour call that gives fg only
ForegroundOnly(g) ==
    [bg |-> None, fg |-> Some(g), fgoffset |-> None, bgpal |-> None, fgpal |-> None]

\* the arguments of a select_colour call that gives the two palette words
PaletteOnly(bgpal, fgpal) ==
    [bg |-> None, fg |-> None, fgoffset |-> None,
     bgpal |-> Some(bgpal), fgpal |-> Some(fgpal)]

\* the colour fields of a context
Colours(c) == <<c.bg, c.fg, c.fgbase, c.fgoffset, c.fgpal, c.bgpal>>

\* the step is a select_colour(fgpal=context.fgpal, bgpal=context.bgpal)
\* that follows a select_colour(fg=g) with g in 0..7
PaletteGivenBack ==
    /\ \E g \in 0..7 : select_colour_args = Some(ForegroundOnly(g))
    /\ select_colour_args' = Some(PaletteOnly(context.bgpal, context.fgpal))

\* C37: the colour conversions round-trip on the palette:
\* rgb_to_gcol(gcol_to_rgb(g)) = g for every g in 0..7 and gcol_to_rgb(g)
\* has low byte 0x10; hence select_colour(fg=g) followed by
\* select_colour(fgpal=context.fgpal, bgpal=context.bgpal) leaves bg, fg,
\* fgbase, fgoffset, fgpal and bgpal unchanged
C37_PaletteRoundTrip ==
    /\ [](\A g \in 0..7 : /\ rgb_to_gcol(gcol_to_rgb(g)) = g
                           /\ gcol_to_rgb(g)[1] = 16)
    /\ [][PaletteGivenBack => Colours(context') = Colours(context)]_vars

\* the palette words were given back to a context whose foreground is
\* colour 6 on a background 3, with an offset carried from earlier
C37_Witness ==
    /\ select_colour_args = Some(PaletteOnly(gcol_to_rgb(3), gcol_to_rgb(6)))
    /\ context.fg = 6
    /\ context.bg = 3
    /\ context.fgoffset # 0

====
